---------------------------- MODULE Spec2Model ----------------------------
(***************************************************************************)
(* samba-chassis task engine: the TaskConsumer scheduling loop, its        *)
(* TaskExecution records and handler workers, the Task retry policy and    *)
(* the visibility-timeout queue they run against.                          *)
(*                                                                         *)
(* Time is counted in whole seconds.  One thread calls start() and stop(); *)
(* the scheduling thread runs loop(); every accepted message gets a worker *)
(* thread running TaskExecution.execute.  The queue keeps, per message,    *)
(* its receive count and the instant at which it becomes visible again.    *)
(* The consumer is configured with max_workers=None (the constructor's     *)
(* default), so _process_scaling returns at once.                          *)
(***************************************************************************)
EXTENDS Integers, Sequences, FiniteSets, TLC

(***************************************************************************)
(* Bounds of the model and the configuration it is run with.               *)
(***************************************************************************)
MaxTime == 5
MaxMsgs == 2
MaxIds == 1
MaxExecs == 3
MaxCalls == 3
MaxFaults == 1
MaxSends == 1
MaxAhead == 5
TaskTimeout == 3
MaxRetries == 2
WaitTime == 0
Workers == 2
UnknownRetries == 1
UnknownDelay == 1
WhenWindow == 1
MaxDefer == 18000

\* a `when` so far ahead that the first deferral is capped
FarAhead == MaxDefer + WhenWindow + 1

Msgs == 1..MaxMsgs
ExecIds == 1..MaxIds
Execs == 1..MaxExecs
NoExec == 0

\* max_workers = None: scaling is off
NoMax == 0

\* the constructor's default scale_factor
ScaleFactor == 100

\* no queue length seen: scaling is off, or queue_len() raised
NoDepth == -1
MaxCallers == 2      \* threads that call start() and stop()
MaxThreads == 3      \* threading.Thread objects start() may make
NoThread == 0        \* consumer_thread is None
Callers == 1..MaxCallers
Threads == 1..MaxThreads

\* configurations of the scaling consumer: workers (the floor), max_workers
MaxFloor == 3
\* a TaskExecution driven directly: its timeout and postpone_num
MaxTimeout == 4
\* a Task driven directly: its wait_time and the argument of get_delay
MaxWait == 3
\* commands tasks.run may send to one pool
MaxRuns == 2
MaxArg == 3
MaxPostpones == 2
MaxCeil == 6
ScaleFactors == {1, 3, ScaleFactor}
\* values of ApproximateNumberOfMessages
MaxDepth == 8
Depths == 0..MaxDepth \cup {100, 400, 1000}

Min(a, b) == IF a <= b THEN a ELSE b
Max(a, b) == IF a >= b THEN a ELSE b

(***************************************************************************)
(* Values a handler can produce (Task.run line 138): True, False, nothing  *)
(* (None), an exception, a truthy object that is not True, a falsy object  *)
(* that is neither False nor None.                                         *)
(***************************************************************************)
HandlerOutcomes == {"True", "False", "None", "raise", "truthy", "falsy"}

VARIABLES
    now,        \* utcnow(), whole seconds
    status,     \* TaskConsumer.status
    loopPc,     \* position of the scheduling thread in loop()
    ctlPc,      \* position of the caller inside start()
    msgs,       \* the queue: one record per message slot
    execs,      \* TaskExecution objects and their worker threads
    onGoing,    \* TaskConsumer._on_going_tasks: exec_id -> TaskExecution
    todo,       \* exec_ids the pass of _process_on_going_tasks has still to visit
    bye,        \* bye_bye_tasks of the running pass
    batch,      \* messages returned by retrieve and not yet looked at
    tasks,      \* the list _get_new_tasks is building
    calls,      \* start()/stop() calls the caller may still make
    faults,     \* queue failures that may still happen
    sends,      \* commands the producer may still send
    hcalls,     \* per exec_id: handler invocations so far
    fallbacks,  \* per exec_id: fallback commands enqueued so far
    sent,       \* exec_ids the producer has sent
    dels,       \* per message: delete calls made by the consumer
    chvFailed,  \* messages for which some change_visibility call has failed
    abandoned,  \* per message: in flight at a stop(force=true) and not received since
    workers,    \* TaskConsumer.workers
    defWorkers, \* TaskConsumer.def_workers
    maxWorkers, \* TaskConsumer.max_workers
    scaleFactor,\* TaskConsumer.scale_factor
    depth,      \* the queue length _process_scaling saw last
    ret,        \* the last method called directly, its inputs and what it returned
    task,       \* the registered Task: wait_progression, wait_time, max_retries
    horizon,    \* the instant at which the observation of the run ends
    queuePool,  \* tasks._queue_pool: the pools that have a queue handler
    registry,   \* tasks._tasks: the registered task names
    outbox,     \* per pool: the commands tasks.run has sent to its queue
    hasConsumer, \* tasks._consumer is not None
    register,   \* requests_circuit_breaker._register: entry -> its record
    breaker,    \* requests_circuit_breaker._config
    streak,     \* per entry: the failed requests in a row that went through it
    callerPc,   \* per calling thread: its position inside start()
    consumerThread, \* TaskConsumer.consumer_thread
    loopThreads, \* per threading.Thread made by start(): its position in loop()
    trend       \* the steps of workers since _process_scaling last saw another depth

vars == <<now, status, loopPc, ctlPc, msgs, execs, onGoing, todo, bye, batch,
          tasks, calls, faults, sends, hcalls, fallbacks, sent, dels, chvFailed,
          abandoned, workers, defWorkers, maxWorkers, scaleFactor, depth, ret, task,
          horizon, queuePool, registry, outbox, hasConsumer, register, breaker, streak,
          callerPc, consumerThread, loopThreads, trend>>

scaleVars == <<workers, defWorkers, maxWorkers, scaleFactor, depth>>
cfgVars == <<task, horizon>>
modVars == <<queuePool, registry, outbox, hasConsumer>>
cbVars == <<register, breaker, streak>>
thrVars == <<callerPc, consumerThread, loopThreads>>
extVars == <<modVars, cbVars, thrVars, trend>>

(***************************************************************************)
(* Task retry policy.                                                      *)
(***************************************************************************)
Progressions == {"NONE", "GEOMETRIC", "ARITHMETIC", "RANDOM"}

\* variant: the first failure waits the progression's zero value
ProgressionValuesZeroFirst(prog, w, r) ==
    IF r <= 1 THEN {0}
    ELSE CASE prog = "NONE" -> {w}
           [] prog = "GEOMETRIC" -> {w * r * r}
           [] prog = "ARITHMETIC" -> {w * r}
           [] prog = "RANDOM" -> (w \div 2)..(2 * w)

\* variant: GEOMETRIC grows like ARITHMETIC
ProgressionValuesLinear(prog, w, r) ==
    CASE prog = "NONE" -> {IF r = 0 THEN 0 ELSE w}
      [] prog = "GEOMETRIC" -> {w * r}
      [] prog = "ARITHMETIC" -> {w * r}
      [] prog = "RANDOM" -> IF r = 0 THEN {0} ELSE (w \div 2)..(2 * w)

\* Task._progressions: the values the progression can yield for wait_time w
\* and argument r (RANDOM draws int(w * uniform(0.5, 2.0))).
ProgressionValues(prog, w, r) ==
    CASE prog = "NONE" -> {IF r = 0 THEN 0 ELSE w}
      [] prog = "GEOMETRIC" -> {w * r * r}
      [] prog = "ARITHMETIC" -> {w * r}
      [] prog = "RANDOM" -> IF r = 0 THEN {0} ELSE (w \div 2)..(2 * w)

Progression == "NONE"

\* Task.__init__: the task the consumer of Spec and SpecLife knows
DefaultTask == [prog |-> Progression, wait |-> WaitTime, maxr |-> MaxRetries]

\* Task.get_delay for the registered task.
\* variant: the delay of one retry less
GetDelayOfRetries(r) == ProgressionValues(task.prog, task.wait, r - 1)

GetDelay(r) == ProgressionValues(task.prog, task.wait, r)

\* Task.run, first branch: the attempt is terminal, the handler is skipped.
IsTerminal(retries) == retries >= task.maxr

\* variant: a handler that returns nothing is not counted as a success
RunValueStrict(outcome) ==
    CASE outcome = "raise" -> "False"
      [] OTHER -> outcome

\* Task.run, second branch: the value run() returns for a handler outcome.
RunValue(outcome) ==
    CASE outcome = "None" -> "True"
      [] outcome = "raise" -> "False"
      [] OTHER -> outcome

(***************************************************************************)
(* TaskExecution.                                                          *)
(***************************************************************************)
FreeExec == [st |-> "free", msg |-> 0, id |-> 0, attempts |-> 0, created |-> 0,
             res |-> "NONE", results |-> "NONE", disabled |-> FALSE, pn |-> 0,
             arg |-> -1, timeout |-> 0]

\* TaskExecution.__init__
NewExec(m, id, attempts, created) ==
    [st |-> "new", msg |-> m, id |-> id, attempts |-> attempts, created |-> created,
     res |-> "NONE", results |-> "NONE", disabled |-> FALSE, pn |-> 0, arg |-> -1,
     timeout |-> TaskTimeout]

\* TaskExecution.execute: the retries argument handed to Task.run
\* variant: the receive count itself is passed as retries
RetriesArgOffByOne(e) == e.attempts

RetriesArg(e) == e.attempts - 1

\* TaskExecution.get_deadline
\* variant: the half timeout is rounded up
GetDeadlineRoundedUp(e) == e.created + ((e.timeout + 1) \div 2) * (e.pn + 1)

GetDeadline(e) == e.created + (e.timeout \div 2) * (e.pn + 1)

\* TaskExecution.postpone: the visibility it asks for
PostponeTimeout(e) == (GetDeadline(e) - now) + e.timeout

\* no method has been called directly.  op: the method; arg: its numeric
\* argument; out: what the handler did; val, ok, res: what the method
\* returned (a number, a boolean, a run() value)
NoRet == [op |-> "none", arg |-> 0, out |-> "none", val |-> 0, ok |-> FALSE, res |-> "NONE"]

\* threading.Thread.is_alive of the execution's worker
ThreadAlive(e) == e.st \in {"started", "handler", "wr"}

(***************************************************************************)
(* The queue.                                                              *)
(***************************************************************************)
FreeMsg == [st |-> "free", id |-> 0, kind |-> "known", when |-> 0, rc |-> 0, vis |-> 0]

\* QueueHandler.send: a fresh message, visible after delay seconds
NewMsg(id, kind, when, delay) ==
    [st |-> "queued", id |-> id, kind |-> kind, when |-> when, rc |-> 0, vis |-> now + delay]

HasFreeMsg == \E m \in Msgs : msgs[m].st = "free"
FreeMsgSlot == CHOOSE m \in Msgs : msgs[m].st = "free" /\ \A k \in Msgs : msgs[k].st = "free" => m <= k

\* a message the queue would hand out now
Visible(m) == msgs[m].st = "queued" /\ msgs[m].vis <= now

\* message.change_visibility succeeds: the message is in flight and the
\* timeout is one the queue accepts
CanChangeVisibility(m, t) == msgs[m].st = "queued" /\ msgs[m].vis > now /\ t >= 0

\* QueueHandler.retrieve clamps the request to 10 messages
RetrieveLimit == 10
RetrieveMax(num) == Min(num, RetrieveLimit)

\* the queue after receive_messages returned the set S
Received(q, S) ==
    [m \in Msgs |-> IF m \in S THEN [q[m] EXCEPT !.rc = @ + 1, !.vis = now + TaskTimeout]
                    ELSE q[m]]

\* QueueHandler.done
\* variant: the message stays in the queue
DoneDropped(q, m) == q

Deleted(q, m) == [q EXCEPT ![m] = [FreeMsg EXCEPT !.st = "deleted", !.id = q[m].id, !.kind = q[m].kind]]

\* QueueHandler.postpone when change_visibility succeeds
Postponed(q, m, t) == [q EXCEPT ![m].vis = now + t]

(***************************************************************************)
(* TaskConsumer helpers.                                                   *)
(***************************************************************************)
InFlight == {i \in ExecIds : onGoing[i] # NoExec}
LoopAlive == loopPc \notin {"none", "dead", "crashed"}

\* TaskConsumer._is_known_task
IsKnownTask(m) == msgs[m].kind # "unknown"

\* variant: one more receive before an unknown command is given up
UnknownExhaustedLate(m) == msgs[m].rc > UnknownRetries + 1

\* _get_new_tasks, line 247: ApproximateReceiveCount > unknown_tasks_retries
UnknownExhausted(m) == msgs[m].rc > UnknownRetries

\* variant: the window opens one second early
PassedWhenEarly(m) == now >= msgs[m].when - WhenWindow - 1

\* TaskConsumer._passed_when: utcnow() > when - when_window, where `when` was
\* cut to whole seconds by strftime and utcnow() carries microseconds, so in
\* whole seconds the instant when - when_window itself has passed
PassedWhen(m) == now >= msgs[m].when - WhenWindow

\* TaskConsumer._when_to_seconds
WhenToSeconds(m) == Min(msgs[m].when - WhenWindow - now, MaxDefer)

HasFreeExec(ex) == \E x \in Execs : ex[x].st = "free"
FreeExecSlot(ex) == CHOOSE x \in Execs : ex[x].st = "free" /\ \A k \in Execs : ex[k].st = "free" => x <= k

\* TaskExecution objects nothing refers to any more are dropped
Collect(ex, og, tl) ==
    [x \in Execs |->
        IF /\ ex[x].st \in {"dead", "new"}
           /\ \A i \in ExecIds : og[i] # x
           /\ \A k \in 1..Len(tl) : tl[k] # x
        THEN FreeExec ELSE ex[x]]

(***************************************************************************)
(* The tasks module after config(): the pool of queue handlers holds the   *)
(* configured pool, one task is registered, nothing was sent through       *)
(* tasks.run.                                                              *)
(***************************************************************************)
LocalPool == "local"
Pools == {LocalPool, "other"}
TaskNames == {"registered", "unregistered"}

InitMod ==
    /\ queuePool = {LocalPool}
    /\ registry = {"registered"}
    /\ outbox = [p \in Pools |-> << >>]
    /\ hasConsumer = TRUE

(***************************************************************************)
(* The HTTP circuit breaker (comm/requests_circuit_breaker.py).            *)
(***************************************************************************)
MaxLimit == 2        \* the fail and success limits range over 1..MaxLimit
MaxOpenTimeout == 2  \* open_timeout ranges over 1..MaxOpenTimeout
MaxClock == 3        \* the breaker is observed from 0 to MaxClock

\* the entries of one host: the host itself and a path below it
Host == "h"
Entries == {Host, "h/a"}
Urls == Entries

\* the entries get_state, _failed and _succeeded walk for a url, host first
Path(url) == IF url = Host THEN <<Host>> ELSE <<Host, url>>
PathSet(url) == {Path(url)[i] : i \in 1..Len(Path(url))}

\* config_layout: the defaults
DefaultBreaker ==
    [open_timeout |-> 10, closed_fail_limit |-> 10, closed_success_limit |-> 1,
     half_fail_limit |-> 1, half_success_limit |-> 10]

\* config_layout: every item is an int accepted when > 0
Breakers ==
    [open_timeout : 1..MaxOpenTimeout, closed_fail_limit : 1..MaxLimit,
     closed_success_limit : 1..MaxLimit, half_fail_limit : 1..MaxLimit,
     half_success_limit : 1..MaxLimit]

NoEntries == [e \in {} |-> 0]

InitCb ==
    /\ register = NoEntries
    /\ breaker = DefaultBreaker
    /\ streak = [e \in Entries |-> 0]

\* _add
Add(t) == [state |-> "CLOSED", fails |-> 0, successes |-> 0, timeout |-> t]

\* _clean
Clean(r) == [r EXCEPT !.fails = 0, !.successes = 0]

\* _open
\* variant: the counters are kept
OpenKeepsCounters(r, t) == [r EXCEPT !.state = "OPENED", !.timeout = t + breaker.open_timeout]

Open(r, t) == [Clean(r) EXCEPT !.state = "OPENED", !.timeout = t + breaker.open_timeout]

\* _close
Close(r) == [Clean(r) EXCEPT !.state = "CLOSED"]

\* _half_open
HalfOpen(r) == [Clean(r) EXCEPT !.state = "HALF"]

\* _timed_out
TimedOut(r, t) == t > r.timeout

\* the record of an entry once `if entry not in _register: _add(entry)` ran
Entry(reg, e, t) == IF e \in DOMAIN reg THEN reg[e] ELSE Add(t)

\* _get_entry_state: what it returns
\* (the state is read before the half-opening of a timed out entry)
GetEntryState(reg, e, t) == Entry(reg, e, t).state

\* _get_entry_state: the record it leaves
Touched(reg, e, t) ==
    IF Entry(reg, e, t).state = "OPENED" /\ TimedOut(Entry(reg, e, t), t)
    THEN HalfOpen(Entry(reg, e, t)) ELSE Entry(reg, e, t)

\* get_state: the loop over the pieces of the path, from piece i on
\* variant: only the last piece of the path counts
GetStateFromLast(reg, path, i, state, t) == GetEntryState(reg, path[Len(path)], t)

RECURSIVE GetStateFrom(_, _, _, _, _)
GetStateFrom(reg, path, i, state, t) ==
    IF i > Len(path) THEN state
    ELSE GetStateFrom(reg, path, i + 1,
                      IF GetEntryState(reg, path[i], t) = "OPENED" THEN "OPENED"
                      ELSE IF GetEntryState(reg, path[i], t) = "HALF" /\ state = "CLOSED" THEN "HALF"
                      ELSE state,
                      t)

\* get_state: what it returns
GetState(reg, url, t) ==
    GetStateFrom(reg, Path(url), 2, GetEntryState(reg, Path(url)[1], t), t)

\* get_state: the register it leaves
AfterGetState(reg, url, t) ==
    [e \in DOMAIN reg \cup PathSet(url) |->
        IF e \in PathSet(url) THEN Touched(reg, e, t) ELSE reg[e]]

\* _fail
Fail(r, t) ==
    IF \/ r.state = "CLOSED" /\ r.fails + 1 >= breaker.closed_fail_limit
       \/ r.state = "HALF" /\ r.fails + 1 >= breaker.half_fail_limit
    THEN Open([r EXCEPT !.fails = r.fails + 1], t)
    ELSE [r EXCEPT !.fails = r.fails + 1]

\* _success
Success(r) ==
    IF r.state = "CLOSED" /\ r.successes + 1 >= breaker.closed_success_limit
    THEN Clean([r EXCEPT !.successes = r.successes + 1])
    ELSE IF r.state = "HALF" /\ r.successes + 1 >= breaker.half_success_limit
    THEN Close([r EXCEPT !.successes = r.successes + 1])
    ELSE [r EXCEPT !.successes = r.successes + 1]

\* _failed
Failed(reg, url, t) ==
    [e \in DOMAIN reg \cup PathSet(url) |->
        IF e \in PathSet(url) THEN Fail(Entry(reg, e, t), t) ELSE reg[e]]

\* _succeeded
Succeeded(reg, url, t) ==
    [e \in DOMAIN reg \cup PathSet(url) |->
        IF e \in PathSet(url) THEN Success(Entry(reg, e, t)) ELSE reg[e]]

\* no depth seen yet, no step of workers
NoTrend == [up |-> 0, down |-> 0, flat |-> FALSE]

\* TaskConsumer.__init__, line 62: no thread yet, nobody inside start()
InitThr ==
    /\ callerPc = [c \in Callers |-> "idle"]
    /\ consumerThread = NoThread
    /\ loopThreads = [t \in Threads |-> "none"]

InitExt == InitMod /\ InitCb /\ InitThr /\ trend = NoTrend

(***************************************************************************)
(* Initial state: a consumer just constructed, an empty queue.             *)
(***************************************************************************)
Init ==
    /\ now = 0
    /\ status = "STOPPED"
    /\ loopPc = "none"
    /\ ctlPc = "idle"
    /\ msgs = [m \in Msgs |-> FreeMsg]
    /\ execs = [x \in Execs |-> FreeExec]
    /\ onGoing = [i \in ExecIds |-> NoExec]
    /\ todo = {}
    /\ bye = {}
    /\ batch = {}
    /\ tasks = << >>
    /\ calls = 1
    /\ faults = MaxFaults
    /\ sends = MaxSends
    /\ hcalls = [i \in ExecIds |-> 0]
    /\ fallbacks = [i \in ExecIds |-> 0]
    /\ sent = {}
    /\ dels = [m \in Msgs |-> 0]
    /\ chvFailed = {}
    /\ abandoned = [m \in Msgs |-> "no"]
    /\ workers = Workers
    /\ defWorkers = Workers
    /\ maxWorkers = NoMax
    /\ scaleFactor = ScaleFactor
    /\ depth = NoDepth
    /\ ret = NoRet
    /\ InitExt
    /\ task = DefaultTask
    /\ horizon = MaxTime

loopVars == <<loopPc, todo, bye, batch, tasks>>

(***************************************************************************)
(* TaskConsumer._process_scaling, lines 126-135: the number of workers     *)
(* after a look at a queue of n messages.                                  *)
(***************************************************************************)
\* variant: one more worker whenever the queue holds more than scale_factor
\* messages, one less whenever it holds fewer
ProcessScalingToCeiling(w, floor, mx, sf, n) ==
    IF mx = NoMax THEN w
    ELSE IF n > sf /\ w < mx THEN w + 1
    ELSE IF n < sf /\ w > floor THEN w - 1
    ELSE w

\* variant: no band between the two limits
ProcessScalingNoBand(w, floor, mx, sf, n) ==
    IF mx = NoMax THEN w
    ELSE IF n > w * sf /\ w < mx THEN w + 1
    ELSE IF n < w * sf /\ w > floor THEN w - 1
    ELSE w

ProcessScaling(w, floor, mx, sf, n) ==
    IF mx = NoMax THEN w
    ELSE LET upper_limit == w * sf + (sf \div 2)
             lower_limit == w * sf - (sf \div 2)
         IN  IF n > upper_limit /\ w < mx THEN w + 1
             ELSE IF n < lower_limit /\ w > floor THEN w - 1
             ELSE w

\* QueueHandler.queue_len: ApproximateNumberOfMessages
QueueLen == Cardinality({m \in Msgs : msgs[m].st = "queued" /\ msgs[m].vis <= now})
histVars == <<hcalls, fallbacks, dels, chvFailed>>

(***************************************************************************)
(* Producer: run() / Task.send with a fresh exec_id.  Commands are sent    *)
(* before the consumer is first started.                                   *)
(***************************************************************************)
NextId == CHOOSE i \in ExecIds : i \notin sent /\ \A k \in ExecIds : k \notin sent => i <= k

Send(kind, ahead) ==
    /\ loopPc = "none"
    /\ sends > 0
    /\ HasFreeMsg
    /\ sent # ExecIds
    /\ kind # "known" => ahead = 0
    /\ sends' = sends - 1
    /\ msgs' = [msgs EXCEPT ![FreeMsgSlot] = NewMsg(NextId, kind, now + ahead, 0)]
    /\ sent' = sent \cup {NextId}
    /\ UNCHANGED <<extVars, cfgVars, ret, scaleVars, abandoned, now, status, ctlPc, execs, onGoing, calls, faults, loopVars, histVars>>

(***************************************************************************)
(* start() and stop().                                                     *)
(***************************************************************************)
\* start(), line 74: the status test
StartCheck ==
    /\ ctlPc = "idle"
    /\ calls > 0
    /\ calls' = calls - 1
    /\ ctlPc' = IF status = "STOPPED" THEN "spawn" ELSE "flip"
    /\ UNCHANGED <<extVars, cfgVars, ret, scaleVars, abandoned, now, status, msgs, execs, onGoing, faults, sent, sends, loopVars, histVars>>

\* start(), lines 75-83: wait for the old thread to die, then run a new one
StartSpawn ==
    /\ ctlPc = "spawn"
    /\ ~LoopAlive
    /\ status' = "RUNNING"
    /\ loopPc' = "while"
    /\ ctlPc' = "idle"
    /\ UNCHANGED <<extVars, cfgVars, ret, scaleVars, abandoned, now, msgs, execs, onGoing, todo, bye, batch, tasks, calls, faults,
                   sent, sends, histVars>>

\* start(), lines 85-87: under the status lock
StartFlip ==
    /\ ctlPc = "flip"
    /\ status' = IF status = "STOPPING" THEN "RUNNING" ELSE status
    /\ ctlPc' = "idle"
    /\ UNCHANGED <<extVars, cfgVars, ret, scaleVars, abandoned, now, msgs, execs, onGoing, calls, faults, sent, sends, loopVars, histVars>>

\* stop(force)
Stop(force) ==
    /\ ctlPc = "idle"
    /\ calls > 0
    /\ calls' = calls - 1
    /\ status' = IF force THEN "STOPPED" ELSE "STOPPING"
    /\ abandoned' = IF force
                    THEN [m \in Msgs |->
                            IF /\ msgs[m].st = "queued"
                               /\ \E i \in InFlight : execs[onGoing[i]].msg = m
                            THEN "stopped" ELSE abandoned[m]]
                    ELSE abandoned
    /\ UNCHANGED <<extVars, cfgVars, ret, scaleVars, now, ctlPc, msgs, execs, onGoing, faults, sent, sends, loopVars, histVars>>

(***************************************************************************)
(* The scheduling thread: loop().                                          *)
(***************************************************************************)
\* an exception leaves loop(): the thread is gone, its locals with it
Crashed ==
    /\ loopPc' = "crashed"
    /\ todo' = {}
    /\ bye' = {}
    /\ batch' = {}
    /\ tasks' = << >>

\* loop(), line 104: the while test
LoopWhile ==
    /\ loopPc = "while"
    /\ IF status # "STOPPED"
       THEN /\ loopPc' = "process"
            /\ todo' = InFlight
       ELSE /\ loopPc' = "exit"
            /\ todo' = todo
    /\ bye' = {}
    /\ abandoned' = [m \in Msgs |-> IF abandoned[m] = "stopped" THEN "seen" ELSE abandoned[m]]
    /\ UNCHANGED <<extVars, cfgVars, ret, scaleVars, now, status, ctlPc, msgs, execs, onGoing, batch, tasks, calls, faults,
                   sent, sends, histVars>>

\* loop(), line 122
LoopExit ==
    /\ loopPc = "exit"
    /\ status' = "STOPPED"
    /\ loopPc' = "dead"
    /\ UNCHANGED <<extVars, cfgVars, ret, scaleVars, abandoned, now, ctlPc, msgs, execs, onGoing, todo, bye, batch, tasks, calls,
                   faults, sent, sends, histVars>>

\* _process_on_going_tasks visits exec_id i: _process_task_results
ProcessTaskResults(i) ==
    LET x == onGoing[i]
        e == execs[x]
        m == e.msg
    IN  /\ loopPc = "process"
        /\ i \in todo
        /\ e.results # "NONE"
        /\ \/ /\ e.results = "True"
              /\ dels' = [dels EXCEPT ![m] = @ + 1]
              /\ \/ /\ msgs' = Deleted(msgs, m)
                    /\ todo' = todo \ {i}
                    /\ bye' = bye \cup {i}
                    /\ UNCHANGED <<loopPc, batch, tasks, faults>>
                 \/ /\ faults > 0
                    /\ faults' = faults - 1
                    /\ Crashed
                    /\ UNCHANGED msgs
              /\ UNCHANGED chvFailed
           \/ /\ e.results = "False"
              /\ \E d \in GetDelay(e.attempts) :
                    LET t == (now - e.created) + d
                    IN  \/ /\ CanChangeVisibility(m, t)
                           /\ msgs' = Postponed(msgs, m, t)
                           /\ UNCHANGED <<faults, chvFailed>>
                        \/ /\ \/ ~CanChangeVisibility(m, t) /\ faults' = faults
                              \/ /\ CanChangeVisibility(m, t)
                                 /\ faults > 0
                                 /\ faults' = faults - 1
                           /\ chvFailed' = chvFailed \cup {m}
                           /\ UNCHANGED msgs
              /\ todo' = todo \ {i}
              /\ bye' = bye \cup {i}
              /\ UNCHANGED <<loopPc, batch, tasks, dels>>
           \/ /\ e.results \notin {"True", "False"}
              /\ todo' = todo \ {i}
              /\ bye' = bye \cup {i}
              /\ UNCHANGED <<loopPc, batch, tasks, msgs, faults, dels, chvFailed>>
        /\ UNCHANGED <<extVars, cfgVars, ret, scaleVars, abandoned, now, status, ctlPc, execs, onGoing, calls, sent, sends, hcalls, fallbacks>>

\* _process_on_going_tasks visits exec_id i: _process_dead_thread
ProcessDeadThread(i) ==
    LET x == onGoing[i]
        e == execs[x]
        m == e.msg
    IN  /\ loopPc = "process"
        /\ i \in todo
        /\ e.results = "NONE"
        /\ ~ThreadAlive(e)
        /\ \/ /\ e.disabled
              /\ dels' = [dels EXCEPT ![m] = @ + 1]
              /\ \/ /\ msgs' = Deleted(msgs, m)
                    /\ todo' = todo \ {i}
                    /\ bye' = bye \cup {i}
                    /\ UNCHANGED <<loopPc, batch, tasks, faults>>
                 \/ /\ faults > 0
                    /\ faults' = faults - 1
                    /\ Crashed
                    /\ UNCHANGED msgs
              /\ UNCHANGED chvFailed
           \/ /\ ~e.disabled
              /\ \E d \in GetDelay(e.attempts) :
                    LET t == (now - e.created) + d
                    IN  \/ /\ CanChangeVisibility(m, t)
                           /\ msgs' = Postponed(msgs, m, t)
                           /\ UNCHANGED <<faults, chvFailed>>
                        \/ /\ \/ ~CanChangeVisibility(m, t) /\ faults' = faults
                              \/ /\ CanChangeVisibility(m, t)
                                 /\ faults > 0
                                 /\ faults' = faults - 1
                           /\ chvFailed' = chvFailed \cup {m}
                           /\ UNCHANGED msgs
              /\ todo' = todo \ {i}
              /\ bye' = bye \cup {i}
              /\ UNCHANGED <<loopPc, batch, tasks, dels>>
        /\ UNCHANGED <<extVars, cfgVars, ret, scaleVars, abandoned, now, status, ctlPc, execs, onGoing, calls, sent, sends, hcalls, fallbacks>>

\* _process_on_going_tasks visits exec_id i: the worker runs and the deadline
\* has not passed, or it has and TaskExecution.postpone returned True
ProcessRunning(i) ==
    LET x == onGoing[i]
        e == execs[x]
        m == e.msg
        t == PostponeTimeout(e)
    IN  /\ loopPc = "process"
        /\ i \in todo
        /\ e.results = "NONE"
        /\ ThreadAlive(e)
        /\ IF now > GetDeadline(e)
           THEN /\ CanChangeVisibility(m, t)
                /\ msgs' = Postponed(msgs, m, t)
           ELSE UNCHANGED msgs
        /\ todo' = todo \ {i}
        /\ UNCHANGED <<extVars, cfgVars, ret, scaleVars, abandoned, now, status, ctlPc, execs, onGoing, calls, faults, sent, sends, loopPc, bye,
                       batch, tasks, hcalls, fallbacks, dels, chvFailed>>

\* variant: the command is not enqueued
IssueDropped(q, slot, i, kind) == q

\* Task.issue(attr, 0, exec_id): a new message with the given exec_id, no
\* delay and no `when` enters the queue
Issue(q, slot, i, kind) == [q EXCEPT ![slot] = NewMsg(i, kind, now, 0)]

\* _process_on_going_tasks visits exec_id i: the deadline has passed and
\* TaskExecution.postpone returned False: _postpone_failed
PostponeFailed(i) ==
    LET x == onGoing[i]
        e == execs[x]
        m == e.msg
        t == PostponeTimeout(e)
        injected == IF CanChangeVisibility(m, t) THEN 1 ELSE 0
        reissued == Issue(msgs, FreeMsgSlot, e.id, msgs[m].kind)
    IN  /\ loopPc = "process"
        /\ i \in todo
        /\ e.results = "NONE"
        /\ ThreadAlive(e)
        /\ now > GetDeadline(e)
        /\ faults >= injected
        /\ chvFailed' = chvFailed \cup {m}
        /\ \/ \* task.issue raises
              /\ faults > injected
              /\ faults' = faults - injected - 1
              /\ Crashed
              /\ UNCHANGED <<msgs, execs, dels>>
           \/ \* task.issue returns, queue_handler.done raises
              /\ HasFreeMsg
              /\ faults > injected
              /\ faults' = faults - injected - 1
              /\ msgs' = reissued
              /\ execs' = [execs EXCEPT ![x].disabled = TRUE]
              /\ dels' = [dels EXCEPT ![m] = @ + 1]
              /\ Crashed
           \/ \* both return
              /\ HasFreeMsg
              /\ faults' = faults - injected
              /\ msgs' = Deleted(reissued, m)
              /\ execs' = [execs EXCEPT ![x].disabled = TRUE]
              /\ dels' = [dels EXCEPT ![m] = @ + 1]
              /\ todo' = todo \ {i}
              /\ bye' = bye \cup {i}
              /\ UNCHANGED <<loopPc, batch, tasks>>
        /\ UNCHANGED <<extVars, cfgVars, ret, scaleVars, abandoned, now, status, ctlPc, onGoing, calls, sent, sends, hcalls, fallbacks>>

\* _process_on_going_tasks, lines 159-160: the bye_bye entries leave the map
ProcessEnd ==
    LET og == [i \in ExecIds |-> IF i \in bye THEN NoExec ELSE onGoing[i]]
    IN  /\ loopPc = "process"
        /\ todo = {}
        /\ onGoing' = og
        /\ execs' = Collect(execs, og, tasks)
        /\ bye' = {}
        /\ loopPc' = "drain"
        /\ UNCHANGED <<extVars, cfgVars, ret, scaleVars, abandoned, now, status, ctlPc, msgs, todo, batch, tasks, calls, faults, sent, sends,
                       histVars>>

\* loop(), lines 110-114: the drain check under the status lock, then
\* _process_scaling (with max_workers = None it returns at once)
LoopDrain ==
    /\ loopPc = "drain"
    /\ status' = IF InFlight = {} /\ status = "STOPPING" THEN "STOPPED" ELSE status
    /\ workers' = ProcessScaling(workers, defWorkers, maxWorkers, scaleFactor, QueueLen)
    /\ depth' = IF maxWorkers = NoMax THEN depth ELSE QueueLen
    /\ loopPc' = "check"
    /\ UNCHANGED <<extVars, cfgVars, ret, defWorkers, maxWorkers, scaleFactor, abandoned, now, ctlPc, msgs, execs, onGoing, todo, bye, batch, tasks, calls, faults,
                   sent, sends, histVars>>

\* loop(), line 116: the intake test
LoopIntakeCheck ==
    /\ loopPc = "check"
    /\ loopPc' = IF Cardinality(InFlight) < workers /\ status = "RUNNING"
                 THEN "retrieve" ELSE "sleep"
    /\ UNCHANGED <<extVars, cfgVars, ret, scaleVars, abandoned, now, status, ctlPc, msgs, execs, onGoing, todo, bye, batch, tasks, calls,
                   faults, sent, sends, histVars>>

\* _get_new_tasks, line 235: queue_handler.retrieve(num)
LoopRetrieve ==
    /\ loopPc = "retrieve"
    /\ \/ \E S \in SUBSET {m \in Msgs : Visible(m)} :
              /\ Cardinality(S) = Min(RetrieveMax(workers - Cardinality(InFlight)),
                                      Cardinality({m \in Msgs : Visible(m)}))
              /\ msgs' = Received(msgs, S)
              /\ abandoned' = [m \in Msgs |-> IF m \in S THEN "no" ELSE abandoned[m]]
              /\ batch' = S
              /\ loopPc' = IF S = {} THEN "sleep" ELSE "triage"
              /\ UNCHANGED <<todo, bye, tasks, faults>>
       \/ /\ faults > 0
          /\ faults' = faults - 1
          /\ Crashed
          /\ UNCHANGED <<msgs, abandoned>>
    /\ UNCHANGED <<extVars, cfgVars, ret, scaleVars, now, status, ctlPc, execs, onGoing, calls, sent, sends, histVars>>

\* _get_new_tasks, lines 240-267: one message of the batch
LoopTriage(m) ==
    /\ loopPc = "triage"
    /\ m \in batch
    /\ \/ \* unknown task, retries exhausted: done
          /\ ~IsKnownTask(m)
          /\ UnknownExhausted(m)
          /\ dels' = [dels EXCEPT ![m] = @ + 1]
          /\ \/ /\ msgs' = Deleted(msgs, m)
                /\ batch' = batch \ {m}
                /\ UNCHANGED <<loopPc, todo, bye, tasks, faults, execs>>
             \/ /\ faults > 0
                /\ faults' = faults - 1
                /\ Crashed
                /\ execs' = Collect(execs, onGoing, << >>)
                /\ UNCHANGED msgs
          /\ UNCHANGED chvFailed
       \/ \* unknown task: parked
          /\ ~IsKnownTask(m)
          /\ ~UnknownExhausted(m)
          /\ \/ /\ msgs' = Postponed(msgs, m, UnknownDelay)
                /\ UNCHANGED <<faults, chvFailed>>
             \/ /\ faults > 0
                /\ faults' = faults - 1
                /\ chvFailed' = chvFailed \cup {m}
                /\ UNCHANGED msgs
          /\ batch' = batch \ {m}
          /\ UNCHANGED <<loopPc, todo, bye, tasks, execs, dels>>
       \/ \* the `when` attribute or the body does not parse: strptime or
          \* json.loads raises
          /\ IsKnownTask(m)
          /\ msgs[m].kind = "malformed"
          /\ Crashed
          /\ execs' = Collect(execs, onGoing, << >>)
          /\ UNCHANGED <<msgs, faults, dels, chvFailed>>
       \/ \* not yet due: postponed
          /\ msgs[m].kind = "known"
          /\ ~PassedWhen(m)
          /\ \/ /\ msgs' = Postponed(msgs, m, WhenToSeconds(m))
                /\ UNCHANGED <<faults, chvFailed>>
             \/ /\ faults > 0
                /\ faults' = faults - 1
                /\ chvFailed' = chvFailed \cup {m}
                /\ UNCHANGED msgs
          /\ batch' = batch \ {m}
          /\ UNCHANGED <<loopPc, todo, bye, tasks, execs, dels>>
       \/ \* accepted: a TaskExecution joins the list
          /\ msgs[m].kind = "known"
          /\ PassedWhen(m)
          /\ HasFreeExec(execs)
          /\ execs' = [execs EXCEPT ![FreeExecSlot(execs)] =
                           NewExec(m, msgs[m].id, msgs[m].rc, now)]
          /\ tasks' = Append(tasks, FreeExecSlot(execs))
          /\ batch' = batch \ {m}
          /\ UNCHANGED <<loopPc, todo, bye, msgs, faults, dels, chvFailed>>
    /\ UNCHANGED <<extVars, cfgVars, ret, scaleVars, abandoned, now, status, ctlPc, onGoing, calls, sent, sends, hcalls, fallbacks>>

\* the entry _run_tasks leaves in the map for exec_id i: the last task of the
\* list carrying it, or what was there
RunEntry(i) ==
    LET ks == {k \in 1..Len(tasks) : execs[tasks[k]].id = i}
    IN  IF ks = {} THEN onGoing[i]
        ELSE tasks[CHOOSE k \in ks : \A j \in ks : j <= k]

\* _run_tasks: every task of the list gets a started thread and its map entry
LoopRunTasks ==
    LET og == [i \in ExecIds |-> RunEntry(i)]
        started == [x \in Execs |->
                      IF \E k \in 1..Len(tasks) : tasks[k] = x
                      THEN [execs[x] EXCEPT !.st = "started"] ELSE execs[x]]
    IN  /\ loopPc = "triage"
        /\ batch = {}
        /\ onGoing' = og
        /\ execs' = Collect(started, og, << >>)
        /\ tasks' = << >>
        /\ loopPc' = "sleep"
        /\ UNCHANGED <<extVars, cfgVars, ret, scaleVars, abandoned, now, status, ctlPc, msgs, todo, bye, batch, calls, faults, sent, sends,
                       histVars>>

\* loop(), line 120: time.sleep(1)
LoopSleep ==
    /\ loopPc = "sleep"
    /\ now < horizon
    /\ now' = now + 1
    /\ loopPc' = "while"
    /\ UNCHANGED <<extVars, cfgVars, ret, scaleVars, abandoned, status, ctlPc, msgs, execs, onGoing, todo, bye, batch, tasks, calls,
                   faults, sent, sends, histVars>>

\* time passing while no scheduling thread runs
Tick ==
    /\ loopPc \in {"dead", "crashed"}
    /\ now < horizon
    /\ now' = now + 1
    /\ UNCHANGED <<extVars, cfgVars, ret, scaleVars, abandoned, status, ctlPc, msgs, execs, onGoing, calls, faults, sent, sends, loopVars,
                   histVars>>

(***************************************************************************)
(* A handler worker: TaskExecution.execute calling Task.run.               *)
(***************************************************************************)
\* the thread after run() returned and execute() read `disabled`
AfterRun(e, value) ==
    [e EXCEPT !.res = value, !.st = IF e.disabled THEN "dead" ELSE "wr"]

\* Task.run is entered: a terminal attempt issues the fallback and returns
\* True (whatever issue_fail does); any other attempt invokes the handler
WorkerBegin(x) ==
    LET e == execs[x]
    IN  /\ e.st = "started"
        /\ IF IsTerminal(RetriesArg(e))
           THEN /\ execs' = Collect([execs EXCEPT ![x] = AfterRun(e, "True")], onGoing, tasks)
                /\ \/ /\ fallbacks' = [fallbacks EXCEPT ![e.id] = @ + 1]
                      /\ faults' = faults
                   \/ /\ faults > 0
                      /\ faults' = faults - 1
                      /\ fallbacks' = fallbacks
                /\ hcalls' = hcalls
           ELSE /\ execs' = [execs EXCEPT ![x].st = "handler", ![x].arg = RetriesArg(e)]
                /\ hcalls' = [hcalls EXCEPT ![e.id] = @ + 1]
                /\ UNCHANGED <<fallbacks, faults>>
        /\ UNCHANGED <<extVars, cfgVars, ret, scaleVars, abandoned, now, status, ctlPc, msgs, onGoing, calls, sent, sends, loopVars, dels,
                       chvFailed>>

\* the handler ends with the given outcome; execute() reads `disabled`
WorkerReturn(x, outcome) ==
    LET e == execs[x]
    IN  /\ e.st = "handler"
        /\ execs' = Collect([execs EXCEPT ![x] = AfterRun(e, RunValue(outcome))], onGoing, tasks)
        /\ UNCHANGED <<extVars, cfgVars, ret, scaleVars, abandoned, now, status, ctlPc, msgs, onGoing, calls, faults, sent, sends, loopVars,
                       histVars>>

\* execute(), line 52: self.results = res
WorkerWrite(x) ==
    LET e == execs[x]
    IN  /\ e.st = "wr"
        /\ execs' = Collect([execs EXCEPT ![x].results = e.res, ![x].st = "dead"], onGoing, tasks)
        /\ UNCHANGED <<extVars, cfgVars, ret, scaleVars, abandoned, now, status, ctlPc, msgs, onGoing, calls, faults, sent, sends, loopVars,
                       histVars>>

(***************************************************************************)
(* The system.                                                             *)
(***************************************************************************)
Kinds == {"known", "unknown", "malformed"}

Next ==
    \/ \E k \in Kinds : \E a \in {0, MaxAhead, FarAhead} : Send(k, a)
    \/ StartCheck
    \/ StartSpawn
    \/ LoopWhile
    \/ \E i \in ExecIds : ProcessTaskResults(i)
    \/ \E i \in ExecIds : ProcessRunning(i)
    \/ \E i \in ExecIds : PostponeFailed(i)
    \/ ProcessEnd
    \/ LoopDrain
    \/ LoopIntakeCheck
    \/ LoopRetrieve
    \/ \E m \in Msgs : LoopTriage(m)
    \/ LoopRunTasks
    \/ LoopSleep
    \/ Tick
    \/ \E x \in Execs : WorkerBegin(x)
    \/ \E x \in Execs : \E o \in HandlerOutcomes : WorkerReturn(x, o)
    \/ \E x \in Execs : WorkerWrite(x)

\* A consumer that is started once and never stopped, fed by a queue whose
\* operations may fail MaxFaults times.
Spec == Init /\ [][Next]_vars

\* The same consumer with a caller that makes up to MaxCalls start() and
\* stop() calls.
InitLife ==
    /\ now = 0
    /\ status = "STOPPED"
    /\ loopPc = "none"
    /\ ctlPc = "idle"
    /\ msgs = [m \in Msgs |-> FreeMsg]
    /\ execs = [x \in Execs |-> FreeExec]
    /\ onGoing = [i \in ExecIds |-> NoExec]
    /\ todo = {}
    /\ bye = {}
    /\ batch = {}
    /\ tasks = << >>
    /\ calls = MaxCalls
    /\ faults = MaxFaults
    /\ sends = MaxSends
    /\ hcalls = [i \in ExecIds |-> 0]
    /\ fallbacks = [i \in ExecIds |-> 0]
    /\ sent = {}
    /\ dels = [m \in Msgs |-> 0]
    /\ chvFailed = {}
    /\ abandoned = [m \in Msgs |-> "no"]
    /\ workers = Workers
    /\ defWorkers = Workers
    /\ maxWorkers = NoMax
    /\ scaleFactor = ScaleFactor
    /\ depth = NoDepth
    /\ ret = NoRet
    /\ InitExt
    /\ task = DefaultTask
    /\ horizon = MaxTime

NextLife ==
    \/ Next
    \/ StartFlip
    \/ \E f \in BOOLEAN : Stop(f)
    \/ LoopExit
    \/ \E i \in ExecIds : ProcessDeadThread(i)

SpecLife == InitLife /\ [][NextLife]_vars

(***************************************************************************)
(* The consumer of Spec with a registered task of the caller's choice (the  *)
(* task of scenario S2, watched until its three backoffs have elapsed, or  *)
(* a task of any progression with a short wait_time), one command without  *)
(* `when` whose handler fails each time it is invoked, and a queue whose   *)
(* operations fail only on a receipt handle that has expired.              *)
(***************************************************************************)
S2Task == [prog |-> "ARITHMETIC", wait |-> 10, maxr |-> 3]
S2Horizon == 10 + 20 + 30 + 3 * TaskTimeout

TaskConfigs ==
    {S2Task} \cup [prog : Progressions, wait : {WaitTime + 1}, maxr : {MaxRetries}]

InitTask ==
    /\ now = 0
    /\ status = "STOPPED"
    /\ loopPc = "none"
    /\ ctlPc = "idle"
    /\ msgs = [m \in Msgs |-> FreeMsg]
    /\ execs = [x \in Execs |-> FreeExec]
    /\ onGoing = [i \in ExecIds |-> NoExec]
    /\ todo = {}
    /\ bye = {}
    /\ batch = {}
    /\ tasks = << >>
    /\ calls = 1
    /\ faults = 0
    /\ sends = 1
    /\ hcalls = [i \in ExecIds |-> 0]
    /\ fallbacks = [i \in ExecIds |-> 0]
    /\ sent = {}
    /\ dels = [m \in Msgs |-> 0]
    /\ chvFailed = {}
    /\ abandoned = [m \in Msgs |-> "no"]
    /\ workers = Workers
    /\ defWorkers = Workers
    /\ maxWorkers = NoMax
    /\ scaleFactor = ScaleFactor
    /\ depth = NoDepth
    /\ ret = NoRet
    /\ InitExt
    /\ task \in TaskConfigs
    /\ horizon = IF task = S2Task THEN S2Horizon ELSE MaxTime

\* what a failing handler does: it returns False or raises
FailingOutcomes == {"False", "raise"}

NextTask ==
    \/ Send("known", 0)
    \/ StartCheck
    \/ StartSpawn
    \/ LoopWhile
    \/ \E i \in ExecIds : ProcessTaskResults(i)
    \/ \E i \in ExecIds : ProcessRunning(i)
    \/ \E i \in ExecIds : PostponeFailed(i)
    \/ ProcessEnd
    \/ LoopDrain
    \/ LoopIntakeCheck
    \/ LoopRetrieve
    \/ \E m \in Msgs : LoopTriage(m)
    \/ LoopRunTasks
    \/ LoopSleep
    \/ \E x \in Execs : WorkerBegin(x)
    \/ \E x \in Execs : \E o \in FailingOutcomes : WorkerReturn(x, o)
    \/ \E x \in Execs : WorkerWrite(x)

SpecTask == InitTask /\ [][NextTask]_vars

(***************************************************************************)
(* One TaskExecution driven directly, as the unit tests do: built over a   *)
(* message just received, with a timeout and a postpone_num of the         *)
(* caller's choice.                                                        *)
(***************************************************************************)
InitExec ==
    /\ now = 0
    /\ status = "STOPPED"
    /\ loopPc = "none"
    /\ ctlPc = "idle"
    /\ \E t \in 1..MaxTimeout : \E p \in 0..MaxPostpones :
          /\ msgs = [m \in Msgs |-> IF m = 1
                                    THEN [NewMsg(1, "known", 0, 0) EXCEPT !.rc = 1, !.vis = t]
                                    ELSE FreeMsg]
          /\ execs = [x \in Execs |-> IF x = 1
                                      THEN [NewExec(1, 1, 1, 0) EXCEPT !.timeout = t, !.pn = p]
                                      ELSE FreeExec]
    /\ onGoing = [i \in ExecIds |-> NoExec]
    /\ todo = {}
    /\ bye = {}
    /\ batch = {}
    /\ tasks = << >>
    /\ calls = 0
    /\ faults = MaxFaults
    /\ sends = 0
    /\ hcalls = [i \in ExecIds |-> 0]
    /\ fallbacks = [i \in ExecIds |-> 0]
    /\ sent = {1}
    /\ dels = [m \in Msgs |-> 0]
    /\ chvFailed = {}
    /\ abandoned = [m \in Msgs |-> "no"]
    /\ workers = Workers
    /\ defWorkers = Workers
    /\ maxWorkers = NoMax
    /\ scaleFactor = ScaleFactor
    /\ depth = NoDepth
    /\ ret = NoRet
    /\ InitExt
    /\ task = DefaultTask
    /\ horizon = MaxTime

\* TaskExecution.get_deadline()
ExecGetDeadline ==
    /\ ret' = [NoRet EXCEPT !.op = "get_deadline", !.val = GetDeadline(execs[1]), !.ok = TRUE]
    /\ UNCHANGED <<extVars, cfgVars, scaleVars, abandoned, now, status, ctlPc, msgs, execs, onGoing, calls, faults,
                   sent, sends, loopVars, histVars>>

\* TaskExecution.postpone(queue_handler): QueueHandler.postpone changes the
\* visibility and answers True, or catches the failure and answers False
ExecPostpone ==
    LET e == execs[1]
        m == e.msg
        t == PostponeTimeout(e)
    IN  /\ \/ /\ CanChangeVisibility(m, t)
              /\ msgs' = Postponed(msgs, m, t)
              /\ ret' = [NoRet EXCEPT !.op = "postpone", !.val = t, !.ok = TRUE]
              /\ UNCHANGED <<faults, chvFailed>>
           \/ /\ \/ ~CanChangeVisibility(m, t) /\ faults' = faults
                 \/ /\ CanChangeVisibility(m, t)
                    /\ faults > 0
                    /\ faults' = faults - 1
              /\ chvFailed' = chvFailed \cup {m}
              /\ ret' = [NoRet EXCEPT !.op = "postpone", !.val = t, !.ok = FALSE]
              /\ UNCHANGED msgs
        /\ UNCHANGED <<extVars, cfgVars, scaleVars, abandoned, now, status, ctlPc, execs, onGoing, calls, sent, sends,
                       loopVars, hcalls, fallbacks, dels>>

\* a second passes
ExecTick ==
    /\ now < horizon
    /\ now' = now + 1
    /\ UNCHANGED <<extVars, cfgVars, ret, scaleVars, abandoned, status, ctlPc, msgs, execs, onGoing, calls, faults,
                   sent, sends, loopVars, histVars>>

NextExec ==
    \/ ExecGetDeadline
    \/ ExecPostpone
    \/ ExecTick

SpecExec == InitExec /\ [][NextExec]_vars

(***************************************************************************)
(* A Task and one TaskExecution of it driven directly, as the unit tests   *)
(* do: the task is built with any progression, a wait_time and a           *)
(* max_retries; the execution stands for a message received `attempts`     *)
(* times.                                                                  *)
(***************************************************************************)
InitUnit ==
    /\ now = 0
    /\ status = "STOPPED"
    /\ loopPc = "none"
    /\ ctlPc = "idle"
    /\ \E a \in 1..(MaxRetries + 1) :
          /\ msgs = [m \in Msgs |-> IF m = 1
                                    THEN [NewMsg(1, "known", 0, 0) EXCEPT !.rc = a,
                                                                           !.vis = TaskTimeout]
                                    ELSE FreeMsg]
          /\ execs = [x \in Execs |-> IF x = 1 THEN NewExec(1, 1, a, 0) ELSE FreeExec]
    /\ onGoing = [i \in ExecIds |-> NoExec]
    /\ todo = {}
    /\ bye = {}
    /\ batch = {}
    /\ tasks = << >>
    /\ calls = 0
    /\ faults = MaxFaults
    /\ sends = 0
    /\ hcalls = [i \in ExecIds |-> 0]
    /\ fallbacks = [i \in ExecIds |-> 0]
    /\ sent = {1}
    /\ dels = [m \in Msgs |-> 0]
    /\ chvFailed = {}
    /\ abandoned = [m \in Msgs |-> "no"]
    /\ workers = Workers
    /\ defWorkers = Workers
    /\ maxWorkers = NoMax
    /\ scaleFactor = ScaleFactor
    /\ depth = NoDepth
    /\ ret = NoRet
    /\ InitExt
    /\ task \in [prog : Progressions, wait : 0..MaxWait, maxr : 1..MaxRetries]
    /\ horizon = MaxTime

\* Task.get_delay(r)
TaskGetDelay(r) ==
    /\ \E d \in GetDelay(r) :
          ret' = [NoRet EXCEPT !.op = "get_delay", !.arg = r, !.val = d, !.ok = TRUE]
    /\ UNCHANGED <<extVars, cfgVars, scaleVars, abandoned, now, status, ctlPc, msgs, execs, onGoing, calls,
                   faults, sent, sends, loopVars, histVars>>

\* Task.run(attr, retries) with a handler that would do `outcome`
TaskRun(retries, outcome) ==
    /\ ret' = IF IsTerminal(retries)
              THEN [NoRet EXCEPT !.op = "run", !.arg = retries, !.res = "True"]
              ELSE [NoRet EXCEPT !.op = "run", !.arg = retries, !.out = outcome,
                                 !.res = RunValue(outcome)]
    /\ UNCHANGED <<extVars, cfgVars, scaleVars, abandoned, now, status, ctlPc, msgs, execs, onGoing, calls,
                   faults, sent, sends, loopVars, histVars>>

\* TaskExecution.execute() of an execution not yet run, with a handler that
\* would do `outcome`: run(attr, attempts - 1), then the write of results
UnitExecute(outcome) ==
    LET e == execs[1]
        r == RetriesArg(e)
        v == IF IsTerminal(r) THEN "True" ELSE RunValue(outcome)
    IN  /\ e.st = "new"
        /\ execs' = [execs EXCEPT ![1].st = "dead", ![1].res = v, ![1].results = v,
                                  ![1].arg = IF IsTerminal(r) THEN -1 ELSE r]
        /\ ret' = [NoRet EXCEPT !.op = "execute", !.arg = r, !.res = v,
                                !.out = IF IsTerminal(r) THEN "none" ELSE outcome]
        /\ UNCHANGED <<extVars, cfgVars, scaleVars, abandoned, now, status, ctlPc, msgs, onGoing, calls,
                       faults, sent, sends, loopVars, histVars>>

\* TaskConsumer._process_task_results(task_exec, bye_bye_tasks) of the
\* execution once it has run
UnitDispatch ==
    LET e == execs[1]
        m == e.msg
    IN  /\ e.st = "dead"
        /\ ret.op = "execute"
        /\ \/ /\ e.results = "True"
              /\ dels' = [dels EXCEPT ![m] = @ + 1]
              /\ msgs' = Deleted(msgs, m)
              /\ UNCHANGED <<faults, chvFailed>>
           \/ /\ e.results = "False"
              /\ \E d \in GetDelay(e.attempts) :
                    LET t == (now - e.created) + d
                    IN  \/ /\ CanChangeVisibility(m, t)
                           /\ msgs' = Postponed(msgs, m, t)
                           /\ UNCHANGED <<faults, chvFailed>>
                        \/ /\ \/ ~CanChangeVisibility(m, t) /\ faults' = faults
                              \/ /\ CanChangeVisibility(m, t)
                                 /\ faults > 0
                                 /\ faults' = faults - 1
                           /\ chvFailed' = chvFailed \cup {m}
                           /\ UNCHANGED msgs
              /\ UNCHANGED dels
           \/ /\ e.results \notin {"True", "False"}
              /\ UNCHANGED <<msgs, faults, dels, chvFailed>>
        /\ bye' = bye \cup {e.id}
        /\ ret' = [ret EXCEPT !.op = "dispatch"]
        /\ UNCHANGED <<extVars, cfgVars, scaleVars, abandoned, now, status, ctlPc, execs, onGoing, calls,
                       sent, sends, loopPc, todo, batch, tasks, hcalls, fallbacks>>

NextUnit ==
    \/ \E r \in 0..MaxArg : TaskGetDelay(r)
    \/ \E r \in 0..MaxRetries : \E o \in HandlerOutcomes : TaskRun(r, o)
    \/ \E o \in HandlerOutcomes : UnitExecute(o)
    \/ UnitDispatch
    \/ ExecTick

SpecUnit == InitUnit /\ [][NextUnit]_vars

(***************************************************************************)
(* The producer side of the tasks module: config() was called, tasks are   *)
(* registered with set_task and commands are sent with run.                *)
(***************************************************************************)
InitProducer ==
    /\ now = 0
    /\ status = "STOPPED"
    /\ loopPc = "none"
    /\ ctlPc = "idle"
    /\ msgs = [m \in Msgs |-> FreeMsg]
    /\ execs = [x \in Execs |-> FreeExec]
    /\ onGoing = [i \in ExecIds |-> NoExec]
    /\ todo = {}
    /\ bye = {}
    /\ batch = {}
    /\ tasks = << >>
    /\ calls = 0
    /\ faults = 0
    /\ sends = 0
    /\ hcalls = [i \in ExecIds |-> 0]
    /\ fallbacks = [i \in ExecIds |-> 0]
    /\ sent = {}
    /\ dels = [m \in Msgs |-> 0]
    /\ chvFailed = {}
    /\ abandoned = [m \in Msgs |-> "no"]
    /\ workers = Workers
    /\ defWorkers = Workers
    /\ maxWorkers = NoMax
    /\ scaleFactor = ScaleFactor
    /\ depth = NoDepth
    /\ ret = NoRet
    /\ task = DefaultTask
    /\ horizon = MaxTime
    /\ queuePool = {LocalPool}
    /\ registry \in SUBSET TaskNames
    /\ outbox = [p \in Pools |-> << >>]
    /\ hasConsumer = FALSE
    /\ InitCb
    /\ InitThr
    /\ trend = NoTrend

\* set_task(task_name, ...)
SetTask(name) ==
    /\ registry' = registry \cup {name}
    /\ UNCHANGED <<queuePool, outbox, hasConsumer, cbVars, thrVars, trend, cfgVars, ret, scaleVars, abandoned, now, status, ctlPc, msgs,
                   execs, onGoing, calls, faults, sent, sends, loopVars, histVars>>

\* run(), lines 336-338: the registry is consulted only for the configured pool
\* variant: the registry is consulted for every pool
StrictEverywhere(task_pool) == TRUE

Strict(task_pool) == task_pool = LocalPool

\* run(task_name, task_attr, task_pool): pool is a pool name or "None"
RunTask(name, pool) ==
    LET task_pool == IF pool = "None" THEN LocalPool ELSE pool
        strict == Strict(task_pool)
    IN  /\ Len(outbox[task_pool]) < MaxRuns
        /\ queuePool' = queuePool \cup {task_pool}
        /\ IF strict /\ name \notin registry
           THEN /\ ret' = [NoRet EXCEPT !.op = "run_task", !.out = name, !.res = pool,
                                        !.ok = FALSE]
                /\ UNCHANGED outbox
           ELSE /\ ret' = [NoRet EXCEPT !.op = "run_task", !.out = name, !.res = pool,
                                        !.ok = TRUE]
                /\ outbox' = [outbox EXCEPT ![task_pool] = Append(@, name)]
        /\ UNCHANGED <<registry, hasConsumer, cbVars, thrVars, trend, cfgVars, scaleVars, abandoned, now, status, ctlPc, msgs, execs,
                       onGoing, calls, faults, sent, sends, loopVars, histVars>>

NextProducer ==
    \/ \E n \in TaskNames : SetTask(n)
    \/ \E n \in TaskNames : \E p \in Pools \cup {"None"} : RunTask(n, p)

SpecProducer == InitProducer /\ [][NextProducer]_vars

(***************************************************************************)
(* A consumer that is STOPPING with one execution in flight whose worker   *)
(* has ended without writing `results` (the execution that                 *)
(* test_process_dead_thread hands to _process_dead_thread), disabled or    *)
(* not, received `attempts` times and accepted `now` seconds ago; the      *)
(* registered task has any progression.                                    *)
(***************************************************************************)
InitDead ==
    /\ now \in 0..TaskTimeout
    /\ status = "STOPPING"
    /\ loopPc = "while"
    /\ ctlPc = "idle"
    /\ \E a \in 1..(MaxRetries + 1) : \E dis \in BOOLEAN :
          /\ msgs = [m \in Msgs |-> IF m = 1
                                    THEN [NewMsg(1, "known", 0, 0) EXCEPT !.rc = a,
                                                                           !.vis = TaskTimeout]
                                    ELSE FreeMsg]
          /\ execs = [x \in Execs |->
                        IF x = 1
                        THEN [NewExec(1, 1, a, 0) EXCEPT !.st = "dead", !.disabled = dis]
                        ELSE FreeExec]
    /\ onGoing = [i \in ExecIds |-> IF i = 1 THEN 1 ELSE NoExec]
    /\ todo = {}
    /\ bye = {}
    /\ batch = {}
    /\ tasks = << >>
    /\ calls = 0
    /\ faults = MaxFaults
    /\ sends = 0
    /\ hcalls = [i \in ExecIds |-> 0]
    /\ fallbacks = [i \in ExecIds |-> 0]
    /\ sent = {1}
    /\ dels = [m \in Msgs |-> 0]
    /\ chvFailed = {}
    /\ abandoned = [m \in Msgs |-> "no"]
    /\ workers = Workers
    /\ defWorkers = Workers
    /\ maxWorkers = NoMax
    /\ scaleFactor = ScaleFactor
    /\ depth = NoDepth
    /\ ret = NoRet
    /\ InitExt
    /\ task \in [prog : Progressions, wait : 0..MaxWait, maxr : 1..MaxRetries]
    /\ horizon = MaxTime

NextDead ==
    \/ LoopWhile
    \/ \E i \in ExecIds : ProcessDeadThread(i)
    \/ ProcessEnd
    \/ LoopDrain
    \/ LoopIntakeCheck
    \/ LoopSleep
    \/ LoopExit
    \/ Tick

SpecDead == InitDead /\ [][NextDead]_vars

(***************************************************************************)
(* The readiness probe: ready() called at any moment of the life of a      *)
(* consumer that is started and stopped by a caller and whose loop may     *)
(* crash on a failing retrieve, or with no consumer at all.                *)
(***************************************************************************)
\* TaskConsumer.get_status
\* variant: the worker is not looked at
GetStatusRaw == status

GetStatus == IF status # "STOPPED" /\ ~LoopAlive THEN "ERROR" ELSE status

InitReady ==
    /\ now = 0
    /\ status = "STOPPED"
    /\ loopPc = "none"
    /\ ctlPc = "idle"
    /\ msgs = [m \in Msgs |-> FreeMsg]
    /\ execs = [x \in Execs |-> FreeExec]
    /\ onGoing = [i \in ExecIds |-> NoExec]
    /\ todo = {}
    /\ bye = {}
    /\ batch = {}
    /\ tasks = << >>
    /\ hasConsumer \in BOOLEAN
    /\ calls = IF hasConsumer THEN MaxCalls ELSE 0
    /\ faults = MaxFaults
    /\ sends = 0
    /\ hcalls = [i \in ExecIds |-> 0]
    /\ fallbacks = [i \in ExecIds |-> 0]
    /\ sent = {}
    /\ dels = [m \in Msgs |-> 0]
    /\ chvFailed = {}
    /\ abandoned = [m \in Msgs |-> "no"]
    /\ workers = Workers
    /\ defWorkers = Workers
    /\ maxWorkers = NoMax
    /\ scaleFactor = ScaleFactor
    /\ depth = NoDepth
    /\ ret = NoRet
    /\ task = DefaultTask
    /\ horizon = MaxTime
    /\ queuePool = {LocalPool}
    /\ registry = {"registered"}
    /\ outbox = [p \in Pools |-> << >>]
    /\ InitCb
    /\ InitThr
    /\ trend = NoTrend

\* ready(): the TASK_CONSUMER entry of its answer
Ready ==
    /\ ret' = [NoRet EXCEPT !.op = "ready",
                            !.out = IF hasConsumer THEN GetStatus ELSE "none",
                            !.res = IF ~hasConsumer THEN "ERROR"
                                    ELSE IF GetStatus \notin {"STOPPING", "RUNNING"} THEN "ERROR"
                                    ELSE "OK"]
    /\ UNCHANGED <<extVars, cfgVars, scaleVars, abandoned, now, status, ctlPc, msgs, execs, onGoing,
                   calls, faults, sent, sends, loopVars, histVars>>

NextReady ==
    \/ Ready
    \/ StartCheck
    \/ StartSpawn
    \/ StartFlip
    \/ \E f \in BOOLEAN : Stop(f)
    \/ LoopWhile
    \/ LoopExit
    \/ ProcessEnd
    \/ LoopDrain
    \/ LoopIntakeCheck
    \/ LoopRetrieve
    \/ LoopSleep
    \/ Tick

SpecReady == InitReady /\ [][NextReady]_vars

(***************************************************************************)
(* The circuit breaker under requests for the urls of one host, each       *)
(* answered or failed by the remote service, while time passes; the        *)
(* configuration is any accepted one within the bounds.                    *)
(***************************************************************************)
InitBreaker ==
    /\ now = 0
    /\ status = "STOPPED"
    /\ loopPc = "none"
    /\ ctlPc = "idle"
    /\ msgs = [m \in Msgs |-> FreeMsg]
    /\ execs = [x \in Execs |-> FreeExec]
    /\ onGoing = [i \in ExecIds |-> NoExec]
    /\ todo = {}
    /\ bye = {}
    /\ batch = {}
    /\ tasks = << >>
    /\ calls = 0
    /\ faults = 0
    /\ sends = 0
    /\ hcalls = [i \in ExecIds |-> 0]
    /\ fallbacks = [i \in ExecIds |-> 0]
    /\ sent = {}
    /\ dels = [m \in Msgs |-> 0]
    /\ chvFailed = {}
    /\ abandoned = [m \in Msgs |-> "no"]
    /\ workers = Workers
    /\ defWorkers = Workers
    /\ maxWorkers = NoMax
    /\ scaleFactor = ScaleFactor
    /\ depth = NoDepth
    /\ ret = NoRet
    /\ task = DefaultTask
    /\ horizon = MaxClock
    /\ InitMod
    /\ register = NoEntries
    /\ breaker \in Breakers
    /\ streak = [e \in Entries |-> 0]
    /\ InitThr
    /\ trend = NoTrend

\* the failures in a row of the entries once request() went from reg to reg2:
\* a failure that went through an entry adds one, a success or a change of
\* the entry's state starts the count again
Streak(reg, reg2, url, res, t) ==
    [e \in Entries |->
        IF e \notin PathSet(url) THEN streak[e]
        ELSE IF reg2[e].state # Entry(reg, e, t).state THEN 0
        ELSE IF res = "RequestFailed" THEN streak[e] + 1
        ELSE IF res = "response" THEN 0
        ELSE streak[e]]

\* request(method, url): `outcome` is what requests.request does if called
Request(url, outcome) ==
    /\ IF GetState(register, url, now) = "OPENED"
       THEN /\ register' = AfterGetState(register, url, now)
            /\ ret' = [NoRet EXCEPT !.op = "request", !.out = url, !.ok = FALSE,
                                    !.res = "CIRCUIT_BREAKER_OPEN"]
       ELSE IF outcome = "raise"
       THEN /\ register' = Failed(AfterGetState(register, url, now), url, now)
            /\ ret' = [NoRet EXCEPT !.op = "request", !.out = url, !.ok = TRUE,
                                    !.res = "RequestFailed"]
       ELSE /\ register' = Succeeded(AfterGetState(register, url, now), url, now)
            /\ ret' = [NoRet EXCEPT !.op = "request", !.out = url, !.ok = TRUE,
                                    !.res = "response"]
    /\ streak' = Streak(register, register', url, ret'.res, now)
    /\ UNCHANGED <<modVars, thrVars, trend, breaker, cfgVars, scaleVars, abandoned, now, status, ctlPc, msgs, execs,
                   onGoing, calls, faults, sent, sends, loopVars, histVars>>

\* the clock of datetime.utcnow() moves on
BreakerTick ==
    /\ now < horizon
    /\ now' = now + 1
    /\ UNCHANGED <<extVars, cfgVars, ret, scaleVars, abandoned, status, ctlPc, msgs, execs, onGoing,
                   calls, faults, sent, sends, loopVars, histVars>>

NextBreaker ==
    \/ \E url \in Urls, outcome \in {"raise", "response"} : Request(url, outcome)
    \/ BreakerTick

SpecBreaker == InitBreaker /\ [][NextBreaker]_vars

(***************************************************************************)
(* start() and stop() called from several threads (consumers.py 71-99).    *)
(* The queue is empty and nothing is in flight, so a pass of loop() only   *)
(* runs the drain test and the scaling step.                               *)
(***************************************************************************)
InitThreads ==
    /\ now = 0
    /\ status = "STOPPED"
    /\ loopPc = "none"
    /\ ctlPc = "idle"
    /\ msgs = [m \in Msgs |-> FreeMsg]
    /\ execs = [x \in Execs |-> FreeExec]
    /\ onGoing = [i \in ExecIds |-> NoExec]
    /\ todo = {}
    /\ bye = {}
    /\ batch = {}
    /\ tasks = << >>
    /\ calls = MaxCalls
    /\ faults = 0
    /\ sends = 0
    /\ hcalls = [i \in ExecIds |-> 0]
    /\ fallbacks = [i \in ExecIds |-> 0]
    /\ sent = {}
    /\ dels = [m \in Msgs |-> 0]
    /\ chvFailed = {}
    /\ abandoned = [m \in Msgs |-> "no"]
    /\ workers = Workers
    /\ defWorkers = Workers
    /\ maxWorkers = NoMax
    /\ scaleFactor = ScaleFactor
    /\ depth = NoDepth
    /\ ret = NoRet
    /\ task = DefaultTask
    /\ horizon = MaxTime
    /\ InitExt

\* Thread.is_alive()
IsAlive(t) == t # NoThread /\ loopThreads[t] \in {"while", "body"}

thrFrame ==
    <<modVars, cbVars, trend, cfgVars, ret, scaleVars, abandoned, now, msgs, execs, onGoing,
      faults, sent, sends, ctlPc, loopVars, histVars>>

\* start(), line 74: the test of the status
CallStart(c) ==
    /\ callerPc[c] = "idle"
    /\ calls > 0
    /\ calls' = calls - 1
    /\ callerPc' = [callerPc EXCEPT ![c] = IF status = "STOPPED" THEN "wait" ELSE "flip"]
    /\ UNCHANGED <<thrFrame, status, consumerThread, loopThreads>>

\* start(), lines 75-78: wait for the previous thread to die
CallWait(c) ==
    /\ callerPc[c] = "wait"
    /\ ~IsAlive(consumerThread)
    /\ callerPc' = [callerPc EXCEPT ![c] = "set"]
    /\ UNCHANGED <<thrFrame, status, calls, consumerThread, loopThreads>>

\* start(), line 80
CallSet(c) ==
    /\ callerPc[c] = "set"
    /\ status' = "RUNNING"
    /\ callerPc' = [callerPc EXCEPT ![c] = "create"]
    /\ UNCHANGED <<thrFrame, calls, consumerThread, loopThreads>>

\* start(), line 81: self.consumer_thread = threading.Thread(target=self.loop)
CallCreate(c) ==
    /\ callerPc[c] = "create"
    /\ \E t \in Threads :
        /\ loopThreads[t] = "none"
        /\ \A u \in Threads : u < t => loopThreads[u] # "none"
        /\ loopThreads' = [loopThreads EXCEPT ![t] = "new"]
        /\ consumerThread' = t
    /\ callerPc' = [callerPc EXCEPT ![c] = "run"]
    /\ UNCHANGED <<thrFrame, status, calls>>

\* start(), line 82: self.consumer_thread.start(); a thread that was started
\* before raises RuntimeError and stays as it is
CallRun(c) ==
    /\ callerPc[c] = "run"
    /\ loopThreads' = IF loopThreads[consumerThread] = "new"
                      THEN [loopThreads EXCEPT ![consumerThread] = "while"]
                      ELSE loopThreads
    /\ callerPc' = [callerPc EXCEPT ![c] = "idle"]
    /\ UNCHANGED <<thrFrame, status, calls, consumerThread>>

\* start(), lines 85-87
CallFlip(c) ==
    /\ callerPc[c] = "flip"
    /\ status' = IF status = "STOPPING" THEN "RUNNING" ELSE status
    /\ callerPc' = [callerPc EXCEPT ![c] = "idle"]
    /\ UNCHANGED <<thrFrame, calls, consumerThread, loopThreads>>

\* stop(force)
CallStop(c, force) ==
    /\ callerPc[c] = "idle"
    /\ calls > 0
    /\ calls' = calls - 1
    /\ status' = IF force THEN "STOPPED" ELSE "STOPPING"
    /\ UNCHANGED <<thrFrame, callerPc, consumerThread, loopThreads>>

\* loop(), line 104 and line 122: the test of the while and the way out
ThreadWhile(t) ==
    /\ loopThreads[t] = "while"
    /\ IF status = "STOPPED"
       THEN /\ loopThreads' = [loopThreads EXCEPT ![t] = "dead"]
            /\ status' = "STOPPED"
       ELSE /\ loopThreads' = [loopThreads EXCEPT ![t] = "body"]
            /\ status' = status
    /\ UNCHANGED <<thrFrame, calls, callerPc, consumerThread>>

\* loop(), lines 105-120: one pass over an empty queue with nothing in flight
ThreadPass(t) ==
    /\ loopThreads[t] = "body"
    /\ status' = IF InFlight = {} /\ status = "STOPPING" THEN "STOPPED" ELSE status
    /\ workers' = ProcessScaling(workers, defWorkers, maxWorkers, scaleFactor, QueueLen)
    /\ depth' = IF maxWorkers = NoMax THEN depth ELSE QueueLen
    /\ loopThreads' = [loopThreads EXCEPT ![t] = "while"]
    /\ UNCHANGED <<modVars, cbVars, trend, cfgVars, ret, defWorkers, maxWorkers, scaleFactor, abandoned,
                   now, msgs, execs, onGoing, faults, sent, sends, ctlPc, loopVars, histVars,
                   calls, callerPc, consumerThread>>

NextThreads ==
    \/ \E c \in Callers : CallStart(c)
    \/ \E c \in Callers : CallWait(c)
    \/ \E c \in Callers : CallSet(c)
    \/ \E c \in Callers : CallCreate(c)
    \/ \E c \in Callers : CallRun(c)
    \/ \E c \in Callers : CallFlip(c)
    \/ \E c \in Callers, force \in BOOLEAN : CallStop(c, force)
    \/ \E t \in Threads : ThreadWhile(t)
    \/ \E t \in Threads : ThreadPass(t)

SpecThreads == InitThreads /\ [][NextThreads]_vars

(***************************************************************************)
(* The scaling of a consumer built from a configuration the layout         *)
(* accepts: every item is only required to be > 0.                         *)
(***************************************************************************)
InitScale ==
    /\ now = 0
    /\ status = "STOPPED"
    /\ loopPc = "none"
    /\ ctlPc = "idle"
    /\ msgs = [m \in Msgs |-> FreeMsg]
    /\ execs = [x \in Execs |-> FreeExec]
    /\ onGoing = [i \in ExecIds |-> NoExec]
    /\ todo = {}
    /\ bye = {}
    /\ batch = {}
    /\ tasks = << >>
    /\ calls = 0
    /\ faults = 0
    /\ sends = 0
    /\ hcalls = [i \in ExecIds |-> 0]
    /\ fallbacks = [i \in ExecIds |-> 0]
    /\ sent = {}
    /\ dels = [m \in Msgs |-> 0]
    /\ chvFailed = {}
    /\ abandoned = [m \in Msgs |-> "no"]
    /\ defWorkers \in 1..MaxFloor
    /\ workers = defWorkers
    /\ maxWorkers \in 1..MaxCeil
    /\ scaleFactor \in ScaleFactors
    /\ depth = NoDepth
    /\ ret = NoRet
    /\ InitExt
    /\ task = DefaultTask
    /\ horizon = MaxTime

\* the steps of workers at the depth n once _process_scaling has set it to w
Trend(n, w) ==
    LET base == IF n = depth THEN trend ELSE NoTrend
    IN  [up |-> base.up + (IF w > workers THEN 1 ELSE 0),
         down |-> base.down + (IF w < workers THEN 1 ELSE 0),
         flat |-> base.flat \/ w = workers]

\* _process_scaling, lines 129-135: queue_len() answers n
Scale(n) ==
    /\ maxWorkers # NoMax
    /\ depth' = n
    /\ workers' = ProcessScaling(workers, defWorkers, maxWorkers, scaleFactor, n)
    /\ trend' = Trend(n, workers')
    /\ UNCHANGED <<modVars, cbVars, thrVars, cfgVars, ret, defWorkers, maxWorkers, scaleFactor, abandoned, now, status, ctlPc, msgs, execs,
                   onGoing, calls, faults, sent, sends, loopVars, histVars>>

\* _process_scaling, lines 136-137: queue_len() raises, the error is logged
ScaleFails ==
    /\ maxWorkers # NoMax
    /\ depth' = NoDepth
    /\ trend' = NoTrend
    /\ UNCHANGED <<modVars, cbVars, thrVars, cfgVars, ret, workers, defWorkers, maxWorkers, scaleFactor, abandoned, now, status, ctlPc, msgs,
                   execs, onGoing, calls, faults, sent, sends, loopVars, histVars>>

NextScale ==
    \/ \E n \in Depths : Scale(n)
    \/ ScaleFails

SpecScale == InitScale /\ [][NextScale]_vars

(***************************************************************************)
(* Properties.                                                             *)
(***************************************************************************)
QueuedWith(q, i) == {m \in Msgs : q[m].st = "queued" /\ q[m].id = i}
Known(i) == \E m \in Msgs : msgs[m].id = i /\ msgs[m].kind = "known"

\* the command with exec_id i has left the queue for good
Gone(i) == i \in sent /\ QueuedWith(msgs, i) = {}

\* C1: at-least-once.  Every command of a registered task that has left the
\* queue had its handler invoked at least once.
C1_AtLeastOnce ==
    \A i \in ExecIds : (Gone(i) /\ Known(i)) => hcalls[i] >= 1

\* C2: no two handler workers of the same exec_id are alive at the same time.
C2_OneWorkerPerExecId ==
    \A x, y \in Execs :
        (x # y /\ ThreadAlive(execs[x]) /\ ThreadAlive(execs[y])) => execs[x].id # execs[y].id

\* C3: while the scheduling thread runs, the handler of an in-flight
\* execution is still running and no queue operation has failed, the
\* execution's message is invisible.
C3_VisibilityHeld ==
    \A i \in InFlight :
        LET e == execs[onGoing[i]]
        IN  (/\ LoopAlive
             /\ faults = MaxFaults
             /\ chvFailed = {}
             /\ e.st = "handler"
             /\ msgs[e.msg].st = "queued") => msgs[e.msg].vis > now

\* C4: retry counting.  An execution takes the message's receive count as
\* its attempts; a handler is only ever invoked with retries = attempts - 1
\* on an attempt <= max_retries, and it is invoked on every such attempt
\* that ran; an attempt > max_retries never invokes the handler and reports
\* True.
C4_RetryCounting ==
    \A x \in Execs :
        LET e == execs[x]
        IN  /\ e.st = "new" => e.attempts = msgs[e.msg].rc
            /\ e.arg # -1 => (e.arg = e.attempts - 1 /\ e.attempts <= MaxRetries)
            /\ (e.st \in {"handler", "wr", "dead"} /\ e.attempts <= MaxRetries)
                  => e.arg = e.attempts - 1
            /\ (e.st \in {"wr", "dead"} /\ e.attempts > MaxRetries)
                  => (e.arg = -1 /\ e.res = "True")

\* C4 witness: a command went through max_retries handler invocations and
\* its terminal attempt has run.
C4_Witness ==
    \E x \in Execs :
        /\ execs[x].attempts = MaxRetries + 1
        /\ execs[x].st = "dead"
        /\ execs[x].results = "True"
        /\ hcalls[execs[x].id] = MaxRetries

\* C5: the fallback of a command is dispatched at most once, and exactly
\* once by the time the message of its terminal attempt, which reported
\* True, is deleted.
C5_FallbackExactlyOnce ==
    /\ \A i \in ExecIds : fallbacks[i] <= 1
    /\ \A i \in InFlight :
          LET e == execs[onGoing[i]]
          IN  (/\ e.attempts > MaxRetries
               /\ e.results = "True"
               /\ msgs[e.msg].st = "deleted") => fallbacks[i] = 1

\* C6: terminal delete.  Once the pass has dispatched an execution whose
\* handler was invoked and returned a truthy value, its message is deleted
\* by exactly one delete call.
C6_TruthyDeleted ==
    \A i \in bye :
        LET e == execs[onGoing[i]]
        IN  (e.arg # -1 /\ e.results \in {"True", "truthy"})
               => (msgs[e.msg].st = "deleted" /\ dels[e.msg] = 1)

\* the replacement _postpone_failed sends for execution e is in queue q
Reissued(q, e) ==
    \E n \in Msgs :
        /\ msgs[n].st = "free"
        /\ q[n] = NewMsg(e.id, msgs[e.msg].kind, now, 0)

\* C7: postpone failure.  The message of a running in-flight execution is
\* deleted only in a step that has enqueued a replacement with the same
\* exec_id and delay 0, marks the execution disabled and, unless delete
\* raised, puts it on the removal list, leaving as many queued messages of
\* that exec_id as before; an execution is disabled only once its
\* replacement is enqueued; outside a pass no in-flight execution is disabled.
C7_Step ==
    \A i \in InFlight :
        LET x == onGoing[i]
            e == execs[x]
        IN  /\ (/\ e.results = "NONE"
                /\ ThreadAlive(e)
                /\ msgs[e.msg].st = "queued"
                /\ msgs'[e.msg].st = "deleted")
                  => /\ Reissued(msgs', e)
                     /\ execs'[x].disabled
                     /\ i \in bye'
                     /\ Cardinality(QueuedWith(msgs', i)) = Cardinality(QueuedWith(msgs, i))
            /\ (~e.disabled /\ execs'[x].disabled)
                  => (Reissued(msgs', e) /\ QueuedWith(msgs', i) # {})

C7_Clean ==
    loopPc \notin {"process", "crashed"} => \A i \in InFlight : ~execs[onGoing[i]].disabled

C7_PostponeFailure == []C7_Clean /\ [][C7_Step]_vars

\* C7 witness: a postpone failure has replaced a message: the original is
\* deleted, its execution disabled, one message of the exec_id is queued.
C7_Witness ==
    \E x \in Execs :
        /\ execs[x].disabled
        /\ msgs[execs[x].msg].st = "deleted"
        /\ Cardinality(QueuedWith(msgs, execs[x].id)) = 1
        /\ loopPc = "drain"

\* C8: the scheduling thread is never ended by an exception.
C8_LoopSurvives == loopPc # "crashed"

\* C9: when the drain check moves STOPPING to STOPPED no handler is running.
C9_Step ==
    (loopPc = "drain" /\ loopPc' = "check" /\ status = "STOPPING" /\ status' = "STOPPED")
        => \A x \in Execs : execs[x].st # "handler"

C9_DrainLeavesNoWorker == [][C9_Step]_vars

\* C10: a consumer whose status is not STOPPED has a scheduling thread
\* (one that was started and has not returned).
C10_NonStoppedHasWorker == status # "STOPPED" => loopPc \notin {"none", "dead"}

\* C11: a start() that found the consumer not STOPPED while the scheduling
\* thread runs returns with status RUNNING.
C11_Step ==
    (ctlPc = "flip" /\ ctlPc' = "idle" /\ LoopAlive) => status' = "RUNNING"

C11_StartDuringStopping == [][C11_Step]_vars

\* C12: a message that was in flight at a stop(force=true), from the first
\* while test after the stop until it is received again, is neither deleted
\* nor given another visibility timeout by the consumer.
C12_Step ==
    \A m \in Msgs :
        abandoned[m] = "seen" => (msgs'[m] = msgs[m] \/ msgs'[m].rc > msgs[m].rc)

C12_ForcedStopAbandons == [][C12_Step]_vars

\* C13: unknown-task bound.  A command of an unregistered task is received
\* at most unknown_tasks_retries + 1 times and never gets a TaskExecution;
\* the triage of a receive with count <= unknown_tasks_retries asks for
\* unknown_tasks_delay of visibility and deletes nothing, the triage of a
\* receive with a higher count calls delete.
C13_Inv ==
    /\ \A m \in Msgs : msgs[m].kind = "unknown" => msgs[m].rc <= UnknownRetries + 1
    /\ \A x \in Execs : execs[x].st # "free" => msgs[execs[x].msg].kind # "unknown"

C13_Step ==
    \A m \in Msgs :
        (/\ loopPc = "triage"
         /\ m \in batch
         /\ msgs[m].kind = "unknown"
         /\ batch' = batch \ {m})
          => /\ (execs' = execs /\ tasks' = tasks) \/ loopPc' = "crashed"
             /\ IF msgs[m].rc <= UnknownRetries
                THEN /\ dels' = dels
                     /\ \/ msgs' = [msgs EXCEPT ![m].vis = now + UnknownDelay]
                        \/ msgs' = msgs /\ m \in chvFailed'
                ELSE /\ dels' = [dels EXCEPT ![m] = dels[m] + 1]
                     /\ \/ msgs'[m].st = "deleted"
                        \/ msgs' = msgs /\ loopPc' = "crashed"

C13_UnknownTaskBound == []C13_Inv /\ [][C13_Step]_vars

\* C13 witness: an unknown command was deleted by its one delete call.
C13_Witness ==
    \E m \in Msgs :
        /\ msgs[m].kind = "unknown"
        /\ msgs[m].st = "deleted"
        /\ dels[m] = 1

\* C14: deferred admission.  A TaskExecution is created only at an instant
\* now >= when - when_window; the triage of a command received earlier
\* creates none and asks for min(when - when_window - now, 18000) seconds of
\* visibility.
C14_Inv ==
    \A x \in Execs :
        execs[x].st = "new" =>
            /\ execs[x].created = now
            /\ now >= msgs[execs[x].msg].when - WhenWindow

C14_Step ==
    \A m \in Msgs :
        (/\ loopPc = "triage"
         /\ m \in batch
         /\ msgs[m].kind = "known"
         /\ now < msgs[m].when - WhenWindow
         /\ batch' = batch \ {m})
          => /\ execs' = execs
             /\ tasks' = tasks
             /\ \/ msgs' = [msgs EXCEPT
                              ![m].vis = now + Min(msgs[m].when - WhenWindow - now, 18000)]
                \/ msgs' = msgs /\ m \in chvFailed'

C14_DeferredAdmission == []C14_Inv /\ [][C14_Step]_vars

\* C14 witness: a command that was deferred by a change of visibility has
\* been accepted at its second receive.
C14_Witness ==
    \E x \in Execs :
        /\ execs[x].st = "new"
        /\ execs[x].attempts = 2
        /\ msgs[execs[x].msg].when = MaxAhead
        /\ execs[x].msg \notin chvFailed

\* C15: scaling bounds.  While scaling is on, one look at the queue changes
\* workers by at most one, and the configured initial workers <= workers <=
\* max_workers in every state.
C15_Inv == maxWorkers # NoMax => (defWorkers <= workers /\ workers <= maxWorkers)

C15_Step == workers' - workers \in {-1, 0, 1}

C15_ScalingBounds == []C15_Inv /\ [][C15_Step]_vars

\* The configuration of scenario S6.
S6 == defWorkers = 3 /\ maxWorkers = 6 /\ scaleFactor = 100

\* C16 as stated: in S6 each look at a queue of 400 messages adds a worker
\* until there are 6, each look at a queue of 100 removes one until there
\* are 3.
C16_AsStatedStep ==
    S6 => /\ depth' = 400 => workers' = Min(workers + 1, 6)
          /\ depth' = 100 => workers' = Max(workers - 1, 3)

C16_AsStated == [][C16_AsStatedStep]_vars

\* C16: scenario S6 as the code runs it.  A queue of 400 messages lies within
\* the band of 4 workers (350..450): each look moves workers one step towards
\* 4 and leaves 4 alone.  A queue of 100 lies below the band of every number
\* of workers above the floor: each look removes one worker until there are 3.
C16_Step ==
    S6 => /\ depth' = 400 => workers' = (IF workers < 4 THEN workers + 1
                                         ELSE IF workers > 4 THEN workers - 1
                                         ELSE 4)
          /\ depth' = 100 => workers' = Max(workers - 1, 3)

C16_ScenarioS6 == [][C16_Step]_vars

\* C16 witness: in S6 the consumer has looked at a queue of 400 messages
\* with 4 workers.
C16_Witness == S6 /\ depth = 400 /\ workers = 4

\* C17 as stated: get_deadline() is created_at plus the exact half of the
\* timeout, postpone_num + 1 times (doubled to stay in whole seconds).
C17_AsStated ==
    ret.op = "get_deadline" =>
        2 * (ret.val - execs[1].created) = execs[1].timeout * (execs[1].pn + 1)

\* C17: deadline law.  get_deadline() is created_at plus the half of the
\* timeout rounded down to whole seconds, postpone_num + 1 times.
C17_DeadlineLaw ==
    ret.op = "get_deadline" =>
        \E half \in 0..execs[1].timeout :
            /\ 2 * half <= execs[1].timeout
            /\ execs[1].timeout < 2 * half + 2
            /\ ret.val = execs[1].created + half * (execs[1].pn + 1)

\* C17 witness: get_deadline() has answered for an odd timeout and a
\* postponed execution.
C17_Witness ==
    /\ ret.op = "get_deadline"
    /\ execs[1].timeout = 3
    /\ execs[1].pn = 2
    /\ ret.val = execs[1].created + 3

\* C18: a call of postpone raises postpone_num by one, asks the queue for
\* ceil(deadline - now) + timeout seconds, and answers what the queue
\* handler answered.
C18_Step ==
    (ret'.op = "postpone" /\ ret' # ret)
      => /\ execs'[1].pn = execs[1].pn + 1
         /\ ret'.val = (GetDeadline(execs[1]) - now) + execs[1].timeout
         /\ ret'.ok = (CanChangeVisibility(1, ret'.val) /\ faults' = faults)
         /\ msgs' = (IF ret'.ok THEN Postponed(msgs, 1, ret'.val) ELSE msgs)

C18_PostponeCounts == [][C18_Step]_vars

\* C19: the worker writes `results` at most once, and never once `disabled`
\* is true: at the step in which execute() assigns self.results the slot is
\* still empty and the execution is not disabled.
C19_Step ==
    \A x \in Execs :
        (execs[x].st = "wr" /\ execs'[x].st # "wr")
          => /\ execs[x].results = "NONE"
             /\ ~execs[x].disabled

C19_NoWriteAfterDisabled == [][C19_Step]_vars

\* C20: one delete per final disposition.  The consumer never calls delete
\* twice on a message, and once the pass has dispatched an execution that
\* ended as done (its run returned a success value, which includes the
\* terminal attempt) or was abandoned after a re-issue, delete has been
\* called exactly once on its message.
C20_AtMostOnce == \A m \in Msgs : dels[m] <= 1

C20_OncePerDisposition ==
    \A i \in bye :
        LET e == execs[onGoing[i]]
        IN  (e.disabled \/ e.results \in {"True", "truthy"}) => dels[e.msg] = 1

C20_DeleteExactlyOnce == C20_AtMostOnce /\ C20_OncePerDisposition

\* the pass dispatches the results of exec_id i in this step
Dispatched(i) ==
    /\ loopPc = "process"
    /\ i \in todo
    /\ onGoing[i] # NoExec
    /\ execs[onGoing[i]].results # "NONE"
    /\ todo' = todo \ {i}

\* C21: scenario S2 (ARITHMETIC, wait_time 10, max_retries 3, a handler that
\* fails).  The dispatch of the failure of receive 1, 2, 3 asks for
\* (now - created_at) + 10, 20, 30 seconds of visibility and deletes nothing;
\* the execution of receive 4 never invokes the handler, issues the fallback
\* and reports True, and its dispatch deletes the message.
C21_Inv ==
    task = S2Task =>
        \A x \in Execs :
            LET e == execs[x]
            IN  /\ e.st # "free" => e.attempts \in 1..4
                /\ e.arg # -1 => e.attempts <= 3
                /\ (e.attempts = 4 /\ e.st \in {"wr", "dead"})
                      => (e.arg = -1 /\ e.res = "True" /\ fallbacks[e.id] >= 1)

C21_Step ==
    task = S2Task =>
        \A i \in ExecIds :
            Dispatched(i) =>
                LET e == execs[onGoing[i]]
                    m == e.msg
                    t == (now - e.created) + 10 * e.attempts
                IN  IF e.attempts <= 3
                    THEN /\ e.results = "False"
                         /\ dels' = dels
                         /\ msgs' = (IF msgs[m].st = "queued" /\ msgs[m].vis > now
                                     THEN [msgs EXCEPT ![m].vis = now + t]
                                     ELSE msgs)
                    ELSE /\ e.results = "True"
                         /\ dels' = [dels EXCEPT ![m] = dels[m] + 1]
                         /\ msgs'[m].st = "deleted"
                         /\ hcalls' = hcalls

C21_ScenarioS2 == []C21_Inv /\ [][C21_Step]_vars

\* C21 witness: in S2 the command was handled and failed three times, its
\* three backoffs have elapsed, the fallback was issued and the message was
\* deleted by one delete call.
C21_Witness ==
    /\ task = S2Task
    /\ now >= 10 + 20 + 30
    /\ \E m \in Msgs :
          /\ msgs[m].st = "deleted"
          /\ dels[m] = 1
          /\ hcalls[msgs[m].id] = 3
          /\ fallbacks[msgs[m].id] = 1

\* the visibility of m is changed by t seconds if its receipt handle is still
\* valid, and nothing else in the queue changes
VisibilitySet(m, t) ==
    msgs' = (IF msgs[m].st = "queued" /\ msgs[m].vis > now
             THEN [msgs EXCEPT ![m].vis = now + t]
             ELSE msgs)

\* C22 as stated: the dispatch of the failure of a first receive asks for
\* (now - created_at) + 0 seconds of visibility, whatever the progression.
C22_AsStatedStep ==
    \A i \in ExecIds :
        (Dispatched(i) /\ execs[onGoing[i]].attempts = 1
                       /\ execs[onGoing[i]].results = "False")
          => VisibilitySet(execs[onGoing[i]].msg, now - execs[onGoing[i]].created)

C22_AsStated == [][C22_AsStatedStep]_vars

\* C22: the dispatch of the failure of a first receive asks for
\* (now - created_at) + d seconds, d being the progression's value at 1 (the
\* receive count): wait_time for NONE, ARITHMETIC and GEOMETRIC, a whole
\* number between wait_time/2 rounded down and 2 * wait_time for RANDOM.
C22_Step ==
    \A i \in ExecIds :
        (Dispatched(i) /\ execs[onGoing[i]].attempts = 1
                       /\ execs[onGoing[i]].results = "False")
          => LET e == execs[onGoing[i]]
                 lo == IF task.prog = "RANDOM" THEN task.wait \div 2 ELSE task.wait
                 hi == IF task.prog = "RANDOM" THEN 2 * task.wait ELSE task.wait
             IN  /\ dels' = dels
                 /\ \E d \in lo..hi : VisibilitySet(e.msg, (now - e.created) + d)

C22_FirstFailureDelay == [][C22_Step]_vars

\* C22 witness: the failure of a first receive under GEOMETRIC has just been
\* dispatched and the message is hidden for wait_time seconds or more.
C22_Witness ==
    /\ task.prog = "GEOMETRIC"
    /\ loopPc = "process"
    /\ \E i \in bye :
          /\ onGoing[i] # NoExec
          /\ execs[onGoing[i]].attempts = 1
          /\ execs[onGoing[i]].results = "False"
          /\ msgs[execs[onGoing[i]].msg].rc = 1
          /\ msgs[execs[onGoing[i]].msg].vis >= now + task.wait

\* C23 as stated: get_delay(r) is 0 or w for NONE, w*r for ARITHMETIC, w*r^2
\* for GEOMETRIC, and for RANDOM 0 at r = 0 and otherwise a whole number v
\* with w/2 <= v <= 2w.
C23_AsStated ==
    ret.op = "get_delay" =>
        LET r == ret.arg
            w == task.wait
        IN  CASE task.prog = "NONE" -> ret.val = (IF r = 0 THEN 0 ELSE w)
              [] task.prog = "ARITHMETIC" -> ret.val = w * r
              [] task.prog = "GEOMETRIC" -> ret.val = w * r * r
              [] task.prog = "RANDOM" ->
                    IF r = 0 THEN ret.val = 0 ELSE (w <= 2 * ret.val /\ ret.val <= 2 * w)

\* C23: backoff shape.  As above, except that RANDOM at r > 0 yields a whole
\* number v with w/2 rounded down <= v <= 2w: w - 1 <= 2v for an odd w.
C23_BackoffShape ==
    ret.op = "get_delay" =>
        LET r == ret.arg
            w == task.wait
        IN  /\ r = 0 => ret.val = 0
            /\ CASE task.prog = "NONE" -> ret.val = (IF r = 0 THEN 0 ELSE w)
                 [] task.prog = "ARITHMETIC" -> ret.val = w * r
                 [] task.prog = "GEOMETRIC" -> ret.val = w * r * r
                 [] task.prog = "RANDOM" ->
                       IF r = 0 THEN ret.val = 0
                       ELSE (w - 1 <= 2 * ret.val /\ ret.val <= 2 * w)

\* C23 witness: get_delay(2) has answered for GEOMETRIC with wait_time 3.
C23_Witness ==
    /\ ret.op = "get_delay"
    /\ task.prog = "GEOMETRIC"
    /\ task.wait = 3
    /\ ret.arg = 2
    /\ ret.val = 12

\* C24: Task.run with retries < max_retries answers False when the handler
\* raises, True when it returns nothing and the handler's own value
\* otherwise; the dispatch of an execution whose handler raised or returned
\* False deletes nothing and asks for (now - created_at) + get_delay(attempts)
\* seconds of visibility.
C24_Inv ==
    (ret.op \in {"run", "execute", "dispatch"} /\ ret.arg < task.maxr)
      => /\ ret.out = "raise" => ret.res = "False"
         /\ ret.out = "None" => ret.res = "True"
         /\ ret.out \notin {"raise", "None"} => ret.res = ret.out
         /\ ret.op # "run" => execs[1].results = ret.res

C24_Step ==
    (/\ ret.op = "execute"
     /\ ret'.op = "dispatch"
     /\ ret.arg < task.maxr
     /\ ret.out \in {"raise", "False"})
      => /\ dels' = dels
         /\ msgs'[1].st = "queued"
         /\ \/ \E d \in GetDelay(execs[1].attempts) :
                  msgs' = [msgs EXCEPT ![1].vis = now + (now - execs[1].created) + d]
            \/ msgs' = msgs /\ 1 \in chvFailed'

C24_RunOutcomes == []C24_Inv /\ [][C24_Step]_vars

\* C24 witness: an execution whose handler raised has been dispatched: its
\* message is still queued, hidden for the backoff.
C24_Witness ==
    /\ ret.op = "dispatch"
    /\ ret.out = "raise"
    /\ ret.res = "False"
    /\ task.prog = "NONE"
    /\ task.wait > 0
    /\ 1 \notin chvFailed
    /\ msgs[1].st = "queued"
    /\ msgs[1].vis >= now + task.wait

\* C25: producer run().  A run aimed at the configured pool (by name or by
\* default) with an unregistered task name fails and sends nothing; a run
\* aimed at another pool succeeds whatever the name, leaves that pool with a
\* queue handler and appends the command to that pool's queue; a run with a
\* registered name aimed at the configured pool sends there.
C25_Step ==
    (ret'.op = "run_task" /\ (ret' # ret \/ outbox' # outbox))
      => LET name == ret'.out
             target == IF ret'.res = "None" THEN "local" ELSE ret'.res
         IN  IF target = "local" /\ name \notin registry
             THEN /\ ~ret'.ok
                  /\ outbox' = outbox
             ELSE /\ ret'.ok
                  /\ target \in queuePool'
                  /\ outbox' = [outbox EXCEPT ![target] = Append(outbox[target], name)]

C25_ProducerRun == [][C25_Step]_vars

\* C25 witness: an unregistered name was sent to the other pool, whose
\* handler was created by that run, and nothing of it reached the local one.
C25_Witness ==
    /\ "unregistered" \notin registry
    /\ "other" \in queuePool
    /\ outbox["other"] = <<"unregistered">>
    /\ outbox["local"] = << >>
    /\ ret.op = "run_task"
    /\ ret.ok

\* C26: ready() answers OK for TASK_CONSUMER exactly when there is a
\* consumer, its status is RUNNING or STOPPING and its scheduling thread is
\* alive; otherwise it answers ERROR.
C26_Step ==
    (ret'.op = "ready" /\ ret' # ret)
      => /\ ret'.res \in {"OK", "ERROR"}
         /\ (ret'.res = "OK") <=> (/\ hasConsumer
                                   /\ status \in {"RUNNING", "STOPPING"}
                                   /\ loopPc \notin {"none", "dead", "crashed"})

C26_Readiness == [][C26_Step]_vars

\* C26 witness: ready() has answered ERROR for a consumer whose status is
\* RUNNING and whose scheduling thread has crashed.
C26_Witness ==
    /\ ret.op = "ready"
    /\ ret.res = "ERROR"
    /\ ret.out = "ERROR"
    /\ hasConsumer
    /\ status = "RUNNING"
    /\ loopPc = "crashed"

\* a step of request() for url (the clock stands still while it runs)
RequestOf(url) == now' = now /\ ret'.op = "request" /\ ret'.out = url

\* entry e is registered, OPENED, and its open timeout has not expired
OpenUnexpired(e) ==
    /\ e \in DOMAIN register
    /\ register[e].state = "OPENED"
    /\ ~(now > register[e].timeout)

\* entry e is registered, OPENED, and its open timeout has expired
OpenExpired(e) ==
    /\ e \in DOMAIN register
    /\ register[e].state = "OPENED"
    /\ now > register[e].timeout

\* state and counters of entry e, an unregistered entry counting as a new one
View(reg, e) ==
    IF e \in DOMAIN reg
    THEN <<reg[e].state, reg[e].fails, reg[e].successes>>
    ELSE <<"CLOSED", 0, 0>>

\* C27 as stated: while an entry of the url's path is OPENED and its timeout
\* has not expired, request() raises without the remote call and leaves the
\* state and the counters of every entry as they were.
C27_AsStatedStep ==
    \A url \in Urls :
        (RequestOf(url) /\ \E e \in PathSet(url) : OpenUnexpired(e))
          => /\ ret'.res = "CIRCUIT_BREAKER_OPEN"
             /\ ~ret'.ok
             /\ \A e \in Entries : View(register', e) = View(register, e)

C27_AsStated == [][C27_AsStatedStep]_vars

\* C27: while an entry of the url's path is OPENED and its timeout has not
\* expired, request() raises without the remote call and leaves every
\* counter as it was; the state of every entry is as it was too, except that
\* an OPENED entry of the path whose own timeout has expired becomes HALF.
C27_Step ==
    \A url \in Urls :
        (RequestOf(url) /\ \E e \in PathSet(url) : OpenUnexpired(e))
          => /\ ret'.res = "CIRCUIT_BREAKER_OPEN"
             /\ ~ret'.ok
             /\ \A e \in Entries :
                    IF e \in PathSet(url) /\ OpenExpired(e)
                    THEN View(register', e) = <<"HALF", 0, 0>> /\ View(register, e) = <<"OPENED", 0, 0>>
                    ELSE View(register', e) = View(register, e)

C27_OpenRejects == [][C27_Step]_vars

\* C27 witness: a request for the path below the host has been rejected
\* while the host is OPENED and unexpired, and the path's own entry, whose
\* timeout had expired, is HALF.
C27_Witness ==
    /\ ret.op = "request"
    /\ ret.res = "CIRCUIT_BREAKER_OPEN"
    /\ ret.out = "h/a"
    /\ OpenUnexpired(Host)
    /\ "h/a" \in DOMAIN register
    /\ register["h/a"].state = "HALF"

\* C28: a CLOSED entry trips to OPENED, with a timeout of open_timeout
\* seconds and both counters at 0, exactly when the failed requests in a row
\* through it reach closed_fail_limit; failures with a success between them
\* do not add up, whatever closed_success_limit is.
C28_Step ==
    \A url \in Urls : \A e \in PathSet(url) :
        (RequestOf(url) /\ ret'.ok /\ View(register, e)[1] = "CLOSED")
          => /\ (register'[e].state = "OPENED")
                   <=> (ret'.res = "RequestFailed" /\ streak[e] + 1 >= breaker.closed_fail_limit)
             /\ register'[e].state = "OPENED"
                   => /\ register'[e].timeout = now + breaker.open_timeout
                      /\ register'[e].fails = 0
                      /\ register'[e].successes = 0
             /\ register'[e].state \in {"CLOSED", "OPENED"}

C28_Tripping == [][C28_Step]_vars

\* C29: once the open timeout of every OPENED entry of the url's path has
\* expired, the next request() for the url is passed through to the remote
\* service as a test request instead of being rejected.
C29_Step ==
    \A url \in Urls :
        (/\ RequestOf(url)
         /\ \E e \in PathSet(url) : OpenExpired(e)
         /\ \A e \in PathSet(url) : ~OpenUnexpired(e))
          => /\ ret'.ok
             /\ ret'.res \in {"response", "RequestFailed"}

C29_TestRequestAfterExpiry == [][C29_Step]_vars

\* C30: every registered entry is CLOSED, OPENED or HALF, and a HALF entry
\* has counted fewer failures than half_fail_limit and fewer successes than
\* half_success_limit.
C30_Inv ==
    \A e \in DOMAIN register :
        /\ register[e].state \in {"CLOSED", "OPENED", "HALF"}
        /\ register[e].state = "HALF"
              => /\ register[e].fails < breaker.half_fail_limit
                 /\ register[e].successes < breaker.half_success_limit

\* C30: a request that went through a HALF entry and failed trips the entry
\* to OPENED, with a timeout of open_timeout seconds from now, when it is
\* the half_fail_limit-th failure since the entry became HALF, and otherwise
\* counts one more failure; one that succeeded returns the entry to CLOSED
\* when it is the half_success_limit-th success, and otherwise counts one
\* more success; every change of an entry's state leaves both counters at 0.
C30_Step ==
    /\ \A url \in Urls : \A e \in PathSet(url) :
        (RequestOf(url) /\ ret'.ok /\ View(register, e)[1] = "HALF")
          => IF ret'.res = "RequestFailed"
             THEN IF register[e].fails + 1 >= breaker.half_fail_limit
                  THEN register'[e] = [state |-> "OPENED", fails |-> 0, successes |-> 0,
                                       timeout |-> now + breaker.open_timeout]
                  ELSE register'[e] = [register[e] EXCEPT !.fails = register[e].fails + 1]
             ELSE IF register[e].successes + 1 >= breaker.half_success_limit
                  THEN register'[e] = [register[e] EXCEPT !.state = "CLOSED", !.fails = 0,
                                                          !.successes = 0]
                  ELSE register'[e] = [register[e] EXCEPT !.successes = register[e].successes + 1]
    /\ \A e \in DOMAIN register :
        register'[e].state # register[e].state
          => register'[e].fails = 0 /\ register'[e].successes = 0

C30_HalfOpen == []C30_Inv /\ [][C30_Step]_vars

\* C30 witness: with both half limits at 2, the host's entry is HALF and
\* has counted one failed and one answered test request without tripping
\* or closing.
C30_Witness ==
    /\ breaker.half_fail_limit = 2
    /\ breaker.half_success_limit = 2
    /\ ret.op = "request"
    /\ ret.ok
    /\ Host \in DOMAIN register
    /\ register[Host].state = "HALF"
    /\ register[Host].fails = 1
    /\ register[Host].successes = 1

\* the loop visits exec_id i, whose worker has ended without `results`
DeadVisit(i) ==
    /\ loopPc = "process"
    /\ i \in todo
    /\ i \notin todo'
    /\ loopPc' # "crashed"
    /\ execs[onGoing[i]].results = "NONE"
    /\ execs[onGoing[i]].st = "dead"

\* C31: an execution in flight whose worker has ended with `results` unset
\* is handled as a failure when the loop visits it (and no queue call
\* raises): it is put on the list of executions that leave the in-flight
\* set, which they do at the end of the pass; if it is disabled its message
\* is deleted, otherwise a change of visibility to (now - created_at) +
\* get_delay(attempts) seconds is made for the message, which is not deleted.
C31_Step ==
    /\ \A i \in ExecIds :
        DeadVisit(i) =>
            LET e == execs[onGoing[i]]
                m == e.msg
            IN  /\ i \in bye'
                /\ IF e.disabled
                   THEN /\ msgs'[m].st = "deleted"
                        /\ dels'[m] = dels[m] + 1
                   ELSE /\ dels' = dels
                        /\ msgs'[m].st = msgs[m].st
                        /\ \E d \in ProgressionValues(task.prog, task.wait, e.attempts) :
                              \/ /\ msgs[m].st = "queued" /\ msgs[m].vis > now
                                 /\ msgs'[m].vis = now + (now - e.created) + d
                              \/ /\ m \in chvFailed'
                                 /\ msgs' = msgs
    /\ (loopPc = "process" /\ loopPc' = "drain")
          => \A i \in bye : onGoing'[i] = NoExec

C31_DeadWorker == [][C31_Step]_vars

\* C31 witness: the loop has visited the dead worker of an execution that
\* was not disabled and received twice; its message is still queued, hidden
\* for elapsed time plus backoff, and the execution is about to leave the
\* in-flight set.
C31_Witness ==
    /\ loopPc = "process"
    /\ 1 \in bye
    /\ execs[1].st = "dead"
    /\ execs[1].results = "NONE"
    /\ ~execs[1].disabled
    /\ execs[1].attempts = 2
    /\ task.prog = "GEOMETRIC"
    /\ task.wait = 1
    /\ now = 2
    /\ msgs[1].st = "queued"
    /\ msgs[1].vis = now + 2 + 4
    /\ dels[1] = 0

\* C32, the order and the size of an intake: the loop enters the intake only
\* from its intake test, which follows the drain check and the scaling, which
\* follow the pass over the in-flight set, and only when status is RUNNING
\* and fewer executions than workers are in flight; it receives at most
\* min(workers - |in-flight|, 10) messages; once their workers are started
\* the in-flight set is no larger than workers.
C32_Order ==
    /\ (loopPc' = "retrieve" /\ loopPc # "retrieve")
          => /\ loopPc = "check"
             /\ status = "RUNNING"
             /\ Cardinality(InFlight) < workers
    /\ (loopPc' = "check" /\ loopPc # "check") => loopPc = "drain"
    /\ (loopPc' = "drain" /\ loopPc # "drain") => loopPc = "process"
    /\ (loopPc = "retrieve" /\ loopPc' \in {"triage", "sleep"})
          => Cardinality(batch') <= Min(workers - Cardinality(InFlight), RetrieveLimit)
    /\ (loopPc = "triage" /\ loopPc' = "sleep")
          => Cardinality({i \in ExecIds : onGoing'[i] # NoExec}) <= workers

\* C32, no intake unless RUNNING: a message is accepted (a TaskExecution is
\* made for it) only while status is RUNNING.
C32_Accept ==
    (loopPc = "triage" /\ Len(tasks') > Len(tasks)) => status = "RUNNING"

\* C32: intake comes after the pass over the in-flight set, the drain check
\* and the scaling, only when RUNNING with a free worker, asks for at most
\* min(workers - |in-flight|, 10) messages, never raises the in-flight set
\* above workers, and accepts no message while STOPPING or STOPPED.
C32_Intake == [][C32_Order /\ C32_Accept]_vars

\* C33: bounded retries.  The handler of a command that never succeeds is
\* invoked at most max_retries times for its exec_id, and the fallback is
\* issued once it has been invoked max_retries times; a re-issue after a
\* failed postponement does not start the count again.
C33_BoundedRetries ==
    \A i \in ExecIds :
        /\ hcalls[i] <= task.maxr
        /\ fallbacks[i] > 0 => hcalls[i] = task.maxr

\* C34: whenever the loop has TaskExecution.postpone called for an execution
\* in flight whose worker still runs and whose deadline has passed, the
\* visibility timeout it asks the queue for is a positive number of seconds.
C34_Step ==
    \A i \in ExecIds :
        (/\ loopPc = "process"
         /\ i \in todo
         /\ i \notin todo'
         /\ execs[onGoing[i]].results = "NONE"
         /\ execs[onGoing[i]].st \in {"started", "handler", "wr"}
         /\ now > execs[onGoing[i]].created
                    + (execs[onGoing[i]].timeout \div 2) * (execs[onGoing[i]].pn + 1))
          => PostponeTimeout(execs[onGoing[i]]) > 0

C34_PositiveExtension == [][C34_Step]_vars

\* C35: deferral does not consume attempts.  The first invocation of the
\* handler for a command is made with retries = 0, however often its message
\* was received and put back before it was accepted.
C35_Step ==
    \A x \in Execs :
        (/\ execs[x].st = "started"
         /\ execs'[x].st = "handler"
         /\ hcalls[execs[x].id] = 0)
          => execs'[x].arg = 0

C35_FirstRunFresh == [][C35_Step]_vars

\* C36: no silent loss.  When the consumer deletes the message of a command
\* of a registered task, the message belongs to an execution whose handler
\* was invoked and returned success, or whose terminal attempt enqueued the
\* fallback, or for which a replacement with the same exec_id is enqueued.
C36_Step ==
    \A m \in Msgs :
        (/\ msgs[m].st = "queued"
         /\ msgs[m].kind = "known"
         /\ msgs'[m].st = "deleted")
          => \E x \in Execs :
                /\ execs[x].st # "free"
                /\ execs[x].msg = m
                /\ \/ execs[x].arg # -1 /\ execs[x].results = "True"
                   \/ /\ execs[x].arg = -1
                      /\ execs[x].results = "True"
                      /\ fallbacks[execs[x].id] >= 1
                   \/ \E k \in Msgs :
                         /\ k # m
                         /\ msgs'[k].st = "queued"
                         /\ msgs'[k].id = execs[x].id

C36_NoSilentLoss == [][C36_Step]_vars

\* C37: backoff is respected.  Once the loop has dispatched the failed
\* attempt number k of a command, the queue does not hand out its message
\* again before get_delay(k) seconds have passed, whether the change of
\* visibility made for it succeeded or not.
C37_Step ==
    \A i \in ExecIds :
        (/\ loopPc = "process"
         /\ i \in todo
         /\ i \in bye'
         /\ execs[onGoing[i]].results = "False")
          => LET e == execs[onGoing[i]]
                 m == e.msg
             IN  \/ msgs'[m].st # "queued"
                 \/ \E d \in GetDelay(e.attempts) : msgs'[m].vis >= now + d \/ d = 0

C37_BackoffRespected == [][C37_Step]_vars

\* C38: at most one scheduling thread of a Consumer is alive at any time,
\* whatever the interleaving of the start(), stop(force=false) and
\* stop(force=true) calls made from different threads.
C38_OneLoopThread == Cardinality({t \in Threads : IsAlive(t)}) <= 1

\* C39: scaling does not oscillate.  While _process_scaling keeps seeing the
\* same queue depth, for every scale_factor (odd ones included) workers moves
\* by single steps in one direction only, makes at most
\* max_workers - floor steps and, once a tick has left it as it was, stays
\* there: it never steps up on one tick and down on a later one.
C39_Inv ==
    /\ trend.up = 0 \/ trend.down = 0
    /\ trend.up + trend.down <= Max(0, maxWorkers - defWorkers)

C39_Step ==
    (depth' = depth /\ depth' # NoDepth)
        => /\ workers' - workers \in {-1, 0, 1}
           /\ trend.flat => workers' = workers

C39_NoOscillation == []C39_Inv /\ [][C39_Step]_vars

\* an odd scale factor, two steps up at one depth, then a fixed point below
\* max_workers
C39_Witness ==
    /\ scaleFactor = 3
    /\ trend.up >= 2
    /\ trend.flat
    /\ workers < maxWorkers

\* C40: when a tick ends no execution of the in-flight set has
\* disabled = true (the tick that disables an execution removes it), and the
\* loop never visits a dead worker whose execution is disabled.
C40_Inv ==
    loopPc = "sleep" => \A i \in InFlight : ~execs[onGoing[i]].disabled

C40_Step ==
    \A i \in ExecIds :
        (/\ loopPc = "process"
         /\ i \in todo
         /\ i \notin todo'
         /\ execs[onGoing[i]].results = "NONE"
         /\ execs[onGoing[i]].st = "dead")
          => ~execs[onGoing[i]].disabled

C40_NoDisabledInFlight == []C40_Inv /\ [][C40_Step]_vars

=============================================================================
